---- MODULE Spec2Model ----
(***************************************************************************)
(* Verification model of baseline-nudge-generator: the baseline nudge      *)
(* calculation (src/src/nudge-generator.js), the token assembler, and the  *)
(* font-name resolution (font-name-extractor, src/src/fontkit-parser.js).  *)
(*                                                                         *)
(* JavaScript numbers are IEEE-754 binary64 values.  The model computes    *)
(* with them exactly: a number is a sign, a 53-bit significand and an      *)
(* exponent, and every arithmetic operation rounds to nearest, ties to     *)
(* even, as the language does.  Significands do not fit the model          *)
(* checker's integers, so they are kept as little-endian sequences of      *)
(* 15-bit limbs.  Infinities, subnormals and the sign of zero are not      *)
(* modelled: the inputs drawn below never produce them.  NaN appears only  *)
(* as the result of a calculation on an object that holds no metrics.      *)
(*                                                                         *)
(* A JavaScript string is the sequence of its characters; a regular        *)
(* expression is the sequence of its elements, matched as the language     *)
(* matches it.                                                             *)
(***************************************************************************)
EXTENDS Integers, Sequences, FiniteSets, TLC

\* JavaScript's null / undefined, where the model holds records
Null == [null |-> TRUE]

-----------------------------------------------------------------------------
(* Naturals of any size: <<>> is 0, no high zero limb. *)

Base == 2^15

\* const x = v; body, written Let([x \in {v} |-> body]): v is computed, then the
\* body with x bound to its value
Let(f) == f[CHOOSE x \in DOMAIN f : TRUE]

Max(S) == CHOOSE x \in S : \A y \in S : y <= x

Min(S) == CHOOSE x \in S : \A y \in S : x <= y

Limb(a, i) == IF 1 <= i /\ i <= Len(a) THEN a[i] ELSE 0

Zeros(n) == [i \in 1..n |-> 0]

\* a without its high zero limbs
BNorm(a) == SubSeq(a, 1, Max({0} \cup {i \in 1..Len(a) : a[i] # 0}))

\* 0 <= n < 2^31
BFromInt(n) == BNorm(<<n % Base, (n \div Base) % Base, n \div (Base * Base)>>)

BSumAt(a, b, i) == Limb(a, i) + Limb(b, i)

\* The carry into limb i: a lower limb overflows and every limb between passes
\* the carry on.
BCarry(a, b, i) ==
    IF \E j \in 1..(i - 1) :
          /\ BSumAt(a, b, j) >= Base
          /\ \A k \in (j + 1)..(i - 1) : BSumAt(a, b, k) >= Base - 1
    THEN 1 ELSE 0

BAdd(a, b) ==
    BNorm([i \in 1..(Max({Len(a), Len(b)}) + 1) |->
              (BSumAt(a, b, i) + BCarry(a, b, i)) % Base])

BDifAt(a, b, i) == Limb(a, i) - Limb(b, i)

BBorrow(a, b, i) ==
    IF \E j \in 1..(i - 1) :
          /\ BDifAt(a, b, j) < 0
          /\ \A k \in (j + 1)..(i - 1) : BDifAt(a, b, k) <= 0
    THEN 1 ELSE 0

\* a - b for a >= b
BSub(a, b) ==
    BNorm([i \in 1..Len(a) |-> (BDifAt(a, b, i) - BBorrow(a, b, i) + Base) % Base])

BCmpAt(a, b, i) == IF i = 0 THEN 0 ELSE IF a[i] < b[i] THEN -1 ELSE 1

\* -1, 0, 1 as a < b, a = b, a > b: by length, then by the highest limb that differs
BCmp(a, b) ==
    IF Len(a) # Len(b) THEN (IF Len(a) < Len(b) THEN -1 ELSE 1)
    ELSE BCmpAt(a, b, Max({0} \cup {i \in 1..Len(a) : a[i] # b[i]}))

\* a * k for 0 <= k < Base: the low halves of the limb products plus their high
\* halves one limb up
BMulSmall(a, k) ==
    BAdd([i \in 1..Len(a) |-> (a[i] * k) % Base],
         <<0>> \o [i \in 1..Len(a) |-> (a[i] * k) \div Base])

BMulRow(a, b, j) ==
    IF j > Len(b) THEN <<>> ELSE Zeros(j - 1) \o BMulSmall(a, b[j])

\* a * b for b of at most 4 limbs (a significand's)
BMul(a, b) ==
    BAdd(BAdd(BMulRow(a, b, 1), BMulRow(a, b, 2)),
         BAdd(BMulRow(a, b, 3), BMulRow(a, b, 4)))

\* a * 2^k
BShl(a, k) == BNorm(Zeros(k \div 15) \o BMulSmall(a, 2^(k % 15)))

\* floor(a / 2^k)
BShr(a, k) ==
    BNorm([i \in 1..(Len(a) - (k \div 15)) |->
              (a[i + (k \div 15)] \div 2^(k % 15))
              + (Limb(a, i + (k \div 15) + 1) % 2^(k % 15)) * 2^(15 - (k % 15))])

\* a mod 2^k
BLow(a, k) ==
    BNorm([i \in 1..Min({Len(a), (k \div 15) + 1}) |->
              IF i <= k \div 15 THEN a[i] ELSE a[i] % 2^(k % 15)])

BitLenSmall(n) == Cardinality({j \in 0..14 : 2^j <= n})

BBitLen(a) ==
    IF a = <<>> THEN 0 ELSE 15 * (Len(a) - 1) + BitLenSmall(a[Len(a)])

BIsOdd(a) == a # <<>> /\ a[1] % 2 = 1

\* The quotient of r's and b's top limbs
BDigitEst(r, b) ==
    Min({Base - 1, (Limb(r, Len(b) + 1) * Base + Limb(r, Len(b))) \div b[Len(b)]})

\* The largest d < Base with d * b <= r, for r < Base * b and b's top limb at
\* least Base / 2: the estimate t is at most 2 too large.
BDigitFrom(r, b, t) ==
    Max({d \in {0, t - 2, t - 1, t} : d >= 0 /\ BCmp(BMulSmall(b, d), r) <= 0})

BDigit(r, b) == BDigitFrom(r, b, BDigitEst(r, b))

BDivTake(b, q, r1, d) == << Append(q, d), BSub(r1, BMulSmall(b, d)) >>

\* One step of the long division by b: a limb of the dividend is brought down
\* to the remainder and the next quotient limb taken. qr = <<quotient limbs so
\* far (high limb first), remainder so far>>
BDivStep(a, b, i, qr) ==
    BDivTake(b, qr[1], BNorm(<<a[i]>> \o qr[2]), BDigit(BNorm(<<a[i]>> \o qr[2]), b))

BReverse(q) == [j \in 1..Len(q) |-> q[Len(q) + 1 - j]]

RECURSIVE BDivAt(_, _, _, _)
\* Long division of limbs i..1 of a by b: <<quotient, remainder>>
BDivAt(a, b, i, qr) ==
    IF i = 0 THEN << BNorm(BReverse(qr[1])), qr[2] >>
    ELSE CHOOSE r \in {BDivAt(a, b, i - 1, next) : next \in {BDivStep(a, b, i, qr)}} : TRUE

\* The long division of a2 by b2, b2's top limb at least Base / 2: the high
\* limbs of a2, one fewer than b2 has, start the remainder.
BDivScaled(a2, b2) ==
    IF Len(a2) < Len(b2) THEN << <<>>, a2 >>
    ELSE BDivAt(a2, b2, Len(a2) - Len(b2) + 1,
                << <<>>, BNorm(SubSeq(a2, Len(a2) - Len(b2) + 2, Len(a2))) >>)

BDivUnscale(qr, k) == << qr[1], BShr(qr[2], k) >>

\* <<floor(a / b), a mod b>> for b # 0: both are scaled by 2^k so that b's top
\* limb is at least Base / 2, which leaves the quotient as it is.
BDivBy(a, b, k) == BDivUnscale(BDivScaled(BShl(a, k), BShl(b, k)), k)

BDivMod(a, b) == BDivBy(a, b, 15 - BitLenSmall(b[Len(b)]))

-----------------------------------------------------------------------------
(* binary64 numbers: (-1)^s * m * 2^e with 2^52 <= m < 2^53, or zero. *)

\* The bits of a significand: three limbs and eight bits
Prec == 3 * 15 + 8

FZero == [s |-> 0, m |-> <<>>, e |-> 0]

FIsZero(x) == x.m = <<>>

\* q * 2^e with q < 2^(Prec + 1): rounding up may have carried into a new bit
FPack(s, q, e) ==
    IF BBitLen(q) > Prec THEN [s |-> s, m |-> BShr(q, 1), e |-> e + 1]
    ELSE [s |-> s, m |-> q, e |-> e]

\* Whether the dropped bits round up: c compares them with half a unit; on a
\* tie they round up when more follows (sticky) or the kept part is odd.
FTieBreak(c, sticky, odd) == c = 1 \/ (c = 0 /\ (sticky \/ odd))

FRoundsUp(M, sh, sticky) ==
    FTieBreak(BCmp(BLow(M, sh), BShl(<<1>>, sh - 1)), sticky, BIsOdd(BShr(M, sh)))

FRoundCut(s, q, e, up) == FPack(s, IF up THEN BAdd(q, <<1>>) ELSE q, e)

\* M of L bits: widened to Prec bits, or its low L - Prec bits rounded away
FRoundBits(s, M, e, sticky, L) ==
    IF L <= Prec THEN [s |-> s, m |-> BShl(M, Prec - L), e |-> e - (Prec - L)]
    ELSE FRoundCut(s, BShr(M, L - Prec), e + (L - Prec), FRoundsUp(M, L - Prec, sticky))

\* The number nearest to (-1)^s * (M + t) * 2^e, ties to even, where t is some
\* quantity in (0, 1) when sticky holds and 0 otherwise.
FRound(s, M, e, sticky) ==
    IF M = <<>> THEN FZero ELSE FRoundBits(s, M, e, sticky, BBitLen(M))

\* An integer |n| < 2^31 as a number (exact).
FromInt(n) == FRound(IF n < 0 THEN 1 ELSE 0, BFromInt(IF n < 0 THEN -n ELSE n), 0, FALSE)

FNeg(x) == IF FIsZero(x) THEN x ELSE [x EXCEPT !.s = 1 - x.s]

FAbs(x) == [x EXCEPT !.s = 0]

FSign(x) == IF FIsZero(x) THEN 0 ELSE IF x.s = 1 THEN -1 ELSE 1

FMul(x, y) ==
    IF FIsZero(x) \/ FIsZero(y) THEN FZero
    ELSE FRound((x.s + y.s) % 2, BMul(x.m, y.m), x.e + y.e, FALSE)

FDivRound(s, qr, e) == FRound(s, qr[1], e, qr[2] # <<>>)

\* x / y for y # 0: the quotient of the significands to 60 further bits, the
\* remainder as the sticky bit.
FDiv(x, y) ==
    IF FIsZero(x) THEN FZero
    ELSE FDivRound((x.s + y.s) % 2, BDivMod(BShl(x.m, 60), y.m), x.e - y.e - 60)

\* The sum of (-1)^sx * Mx * 2^e and (-1)^sy * My * 2^e, signs differing, c the
\* comparison of Mx with My
FAddSigned(sx, Mx, sy, My, e, c) ==
    IF c = 0 THEN FZero
    ELSE IF c = 1 THEN FRound(sx, BSub(Mx, My), e, FALSE)
    ELSE FRound(sy, BSub(My, Mx), e, FALSE)

FAddAligned(sx, Mx, sy, My, e) ==
    IF sx = sy THEN FRound(sx, BAdd(Mx, My), e, FALSE)
    ELSE FAddSigned(sx, Mx, sy, My, e, BCmp(Mx, My))

\* x + y: both significands at the smaller exponent e, added exactly, rounded
FAddAt(x, y, e) ==
    FAddAligned(x.s, BShl(x.m, x.e - e), y.s, BShl(y.m, y.e - e), e)

FAdd(x, y) ==
    IF FIsZero(x) THEN y
    ELSE IF FIsZero(y) THEN x
    ELSE FAddAt(x, y, Min({x.e, y.e}))

FSub(x, y) == FAdd(x, FNeg(y))

\* x < y, x > y: the sign of the rounded difference is the sign of the difference
FLt(x, y) == FSign(FSub(x, y)) = -1

FGt(x, y) == FSign(FSub(x, y)) = 1

\* Math.max(x, y)
FMax(x, y) == IF FLt(x, y) THEN y ELSE x

\* For x with fraction bits (x.e < 0): its integer part, and the comparison of
\* its fraction with 0 and with 1/2
FTrunc(x) == BShr(x.m, -x.e)

FHasFrac(x) == BLow(x.m, -x.e) # <<>>

FFracCmpHalf(x) == BCmp(BLow(x.m, -x.e), BShl(<<1>>, -x.e - 1))

\* Math.ceil(x)
FCeil(x) ==
    IF FIsZero(x) \/ x.e >= 0 THEN x
    ELSE IF x.s = 0
    THEN FRound(0, IF FHasFrac(x) THEN BAdd(FTrunc(x), <<1>>) ELSE FTrunc(x), 0, FALSE)
    ELSE FRound(1, FTrunc(x), 0, FALSE)

\* Math.round(x): the integer nearest to x, ties towards +Infinity
FMathRound(x) ==
    IF FIsZero(x) \/ x.e >= 0 THEN x
    ELSE IF x.s = 0
    THEN FRound(0, IF FFracCmpHalf(x) >= 0 THEN BAdd(FTrunc(x), <<1>>) ELSE FTrunc(x), 0, FALSE)
    ELSE FRound(1, IF FFracCmpHalf(x) = 1 THEN BAdd(FTrunc(x), <<1>>) ELSE FTrunc(x), 0, FALSE)

\* The number a decimal literal p/q (p, q integers, q > 0) denotes: the
\* correctly rounded quotient.
Num(p, q) == FDiv(FromInt(p), FromInt(q))

-----------------------------------------------------------------------------
(* BaselineNudgeGenerator.calculateNudgeRem *)

\* What a call does: it returns a value or throws an error.
Return(v) == [kind |-> "return", value |-> v]

Throw(type, message) == [kind |-> "throw", type |-> type, message |-> message]

MetricsNotLoaded ==
    Throw("Error", "Font metrics not loaded. Cannot calculate baseline nudges without font file.")

\* A font-unit metric at the font size, in rem
ascenderRem(fm, fontSizeRem) ==
    FDiv(FMul(FromInt(fm.ascent), fontSizeRem), FromInt(fm.unitsPerEm))

\* The descender with the sign the font's descent has, no absolute value taken
descenderRemSigned(fm, fontSizeRem) ==
    FDiv(FMul(FromInt(fm.descent), fontSizeRem), FromInt(fm.unitsPerEm))

descenderRem(fm, fontSizeRem) ==
    FDiv(FMul(FAbs(FromInt(fm.descent)), fontSizeRem), FromInt(fm.unitsPerEm))

lineGapRem(fm, fontSizeRem) ==
    FDiv(FMul(FromInt(fm.lineGap), fontSizeRem), FromInt(fm.unitsPerEm))

\* effectiveAscenderRem + effectiveDescenderRem
contentAreaRem(ascender, descender, lineGap) ==
    FAdd(FAdd(ascender, lineGap), descender)

lineHeightAbsoluteRem(lineHeightRem, baselineUnitRem) ==
    FMul(lineHeightRem, baselineUnitRem)

leadingRem(ascender, descender, lineGap, lineHeightAbsolute) ==
    FSub(lineHeightAbsolute, contentAreaRem(ascender, descender, lineGap))

baselineOffsetFrom(ascender, descender, lineGap, lineHeightAbsolute) ==
    FAdd(FAdd(FDiv(leadingRem(ascender, descender, lineGap, lineHeightAbsolute), FromInt(2)),
              ascender),
         FDiv(lineGap, FromInt(2)))

\* baselineOffsetRem, from the metrics fm and the three arguments (numbers)
baselineOffsetRem(fm, fontSizeRem, lineHeightRem, baselineUnitRem) ==
    baselineOffsetFrom(ascenderRem(fm, fontSizeRem), descenderRem(fm, fontSizeRem),
                       lineGapRem(fm, fontSizeRem),
                       lineHeightAbsoluteRem(lineHeightRem, baselineUnitRem))

\* nudgeRem: the distance from the baseline offset up to the next grid line
snapNudgeRem(offset, baselineUnitRem) ==
    FSub(FMul(FCeil(FDiv(offset, baselineUnitRem)), baselineUnitRem), offset)

onePixelInRem == FDiv(FromInt(1), FromInt(16))

compensation == FMul(onePixelInRem, FromInt(1))

scaleFactor(fontSizeRem) == FMax(FromInt(0), FSub(fontSizeRem, FromInt(1)))

proportionalCompensation(fontSizeRem) ==
    FMul(FDiv(compensation, fontSizeRem), scaleFactor(fontSizeRem))

\* The grid unit added whatever the sign of the compensated nudge
wrapAlways(compensated, baselineUnitRem) == FAdd(compensated, baselineUnitRem)

\* if (compensatedNudgeRem < 0) compensatedNudgeRem += baselineUnitRem
wrapNegative(compensated, baselineUnitRem) ==
    IF FSign(compensated) = -1 THEN FAdd(compensated, baselineUnitRem) ELSE compensated

\* compensatedNudgeRem: the drift compensation and the wrap to the next grid line
compensatedNudgeRem(nudgeRem, fontSizeRem, baselineUnitRem) ==
    wrapNegative(IF FSign(nudgeRem) = 1
                 THEN FSub(nudgeRem, proportionalCompensation(fontSizeRem))
                 ELSE nudgeRem,
                 baselineUnitRem)

\* Math.round(x * 100000) / 100000
roundTo5(x) == FDiv(FMathRound(FMul(x, FromInt(100000))), FromInt(100000))

\* Not a number: what the arithmetic gives on an object without the metrics
NaN == [s |-> 0, m |-> <<>>, e |-> 0, nan |-> TRUE]

\* The call's outcome; the baseline offset and nudgeRem (the snap step's value)
\* are kept beside the returned value.
calculateNudgeRem(fm, fontSizeRem, lineHeightRem, baselineUnitRem) ==
    IF fm = Null THEN MetricsNotLoaded
    ELSE IF "ascent" \notin DOMAIN fm
         THEN [kind |-> "return", value |-> NaN, baselineOffsetRem |-> NaN, nudgeRem |-> NaN]
    ELSE
    Let([offset \in {baselineOffsetRem(fm, fontSizeRem, lineHeightRem, baselineUnitRem)} |->
    Let([nudgeRem \in {snapNudgeRem(offset, baselineUnitRem)} |->
        [kind |-> "return",
         value |-> roundTo5(compensatedNudgeRem(nudgeRem, fontSizeRem, baselineUnitRem)),
         baselineOffsetRem |-> offset,
         nudgeRem |-> nudgeRem]])])


\* The number a decimal literal p/q denotes
Lit(pq) == Num(pq[1], pq[2])

Metrics(a, d, g, u) == [ascent |-> a, descent |-> d, lineGap |-> g, unitsPerEm |-> u]

-----------------------------------------------------------------------------
(* JS strings: a string is the sequence of its characters. *)

Chars(str) == [i \in 1..Len(str) |-> SubSeq(str, i, i)]

UpperAlpha == Chars("ABCDEFGHIJKLMNOPQRSTUVWXYZ")

LowerAlpha == Chars("abcdefghijklmnopqrstuvwxyz")

Letters == {UpperAlpha[i] : i \in 1..26} \cup {LowerAlpha[i] : i \in 1..26}

Digits == {"0", "1", "2", "3", "4", "5", "6", "7", "8", "9"}

HexDigits == Digits \cup {"a", "b", "c", "d", "e", "f"}

PunctuationChars == Chars("!\"#$%&'()*+,-./:;<=>?@[\\]^_{|}~")

Punctuation == {PunctuationChars[i] : i \in 1..Len(PunctuationChars)}

\* \x20-\x7E (the grave accent, which no name of the model holds, is left out)
Printable == Letters \cup Digits \cup Punctuation \cup {" "}

\* \s
IsSpace(c) == c \in {" ", "\t"}

\* \w
IsWordChar(c) == c \in Letters \cup Digits \cup {"_"}

toLowerChar(c) ==
    IF \E i \in 1..26 : UpperAlpha[i] = c
    THEN LowerAlpha[CHOOSE i \in 1..26 : UpperAlpha[i] = c]
    ELSE c

toUpperChar(c) ==
    IF \E i \in 1..26 : LowerAlpha[i] = c
    THEN UpperAlpha[CHOOSE i \in 1..26 : LowerAlpha[i] = c]
    ELSE c

\* The string whose characters are f[1], ..., f[n]
Str(f, n) == SubSeq([i \in 1..n |-> f[i]], 1, n)

toLowerCase(s) == Str([i \in 1..Len(s) |-> toLowerChar(s[i])], Len(s))

\* String.prototype.trim
trim(s) ==
    SubSeq(s, Min({Len(s) + 1} \cup {i \in 1..Len(s) : ~IsSpace(s[i])}),
              Max({0} \cup {i \in 1..Len(s) : ~IsSpace(s[i])}))

\* s with only the characters at the positions in K, in order
Pick(s, K) ==
    Str([j \in 1..Cardinality(K) |->
            s[CHOOSE i \in K : Cardinality({k \in K : k <= i}) = j]], Cardinality(K))

\* String.prototype.includes
includes(s, t) ==
    \E i \in 1..(Len(s) - Len(t) + 1) : SubSeq(s, i, i + Len(t) - 1) = t

\* \b between the characters at i - 1 and i
WordBoundary(s, i) ==
    (i > 1 /\ i - 1 <= Len(s) /\ IsWordChar(s[i - 1])) # (i >= 1 /\ i <= Len(s) /\ IsWordChar(s[i]))

\* The word w (lower case) stands at i, in any case, between word boundaries
WordAt(s, w, i) ==
    /\ i + Len(w) - 1 <= Len(s)
    /\ \A k \in 1..Len(w) : toLowerChar(s[i + k - 1]) = w[k]
    /\ WordBoundary(s, i)
    /\ WordBoundary(s, i + Len(w))

\* .replace(/[-_]/g, ' ')
separatorsToSpaces(s) ==
    Str([i \in 1..Len(s) |-> IF s[i] \in {"-", "_"} THEN " " ELSE s[i]], Len(s))

\* .replace(/\s+/g, ' '): every run of white space becomes one space
collapseSpaces(s) ==
    Pick([i \in 1..Len(s) |-> IF IsSpace(s[i]) THEN " " ELSE s[i]],
         {i \in 1..Len(s) : ~IsSpace(s[i]) \/ i = 1 \/ ~IsSpace(s[i - 1])})

\* .replace(/\bw\b/gi, '') for the words w of W (lower case): the characters of
\* every occurrence of such a word are removed
removeWords(s, W) ==
    Pick(s, {k \in 1..Len(s) :
                ~\E w \in W : \E i \in (k - Len(w) + 1)..k : i >= 1 /\ WordAt(s, w, i)})

\* .replace(/^\d+-/, '')
removeLeadingNumber(s) ==
    IF \E p \in 1..(Len(s) - 1) : s[p + 1] = "-" /\ \A k \in 1..p : s[k] \in Digits
    THEN SubSeq(s, 1 + CHOOSE p \in 2..Len(s) : s[p] = "-" /\ \A k \in 1..(p - 1) : s[k] \in Digits,
                Len(s))
    ELSE s

-----------------------------------------------------------------------------
(* Regular expressions: a pattern is a sequence of elements, matched in order. *)

Elem(k, s, n) == [k |-> k, s |-> s, n |-> n]

\* a literal, matched in any case (the i flag)
Text(str) == Elem("lit", toLowerCase(Chars(str)), 0)

\* (a|b|...), each alternative a literal
OneOf(strs) == Elem("alt", [a \in 1..Len(strs) |-> toLowerCase(Chars(strs[a]))], 0)

\* \s*  and  \s+
Ws == Elem("\\s", <<>>, 0)

WsPlus == Elem("\\s", <<>>, 1)

\* \d+  and  \d{n}
DigitsPlus == Elem("\\d+", <<>>, 0)

DigitsN(n) == Elem("\\d{n}", <<>>, n)

\* [a-f0-9]+
HexPlus == Elem("[a-f0-9]+", <<>>, 0)

\* (\.\d+)*
DotNums == Elem("(\\.\\d+)*", <<>>, 0)

\* \([^)]*\) and the like: an opening bracket, no closing one, a closing bracket
Group(open, close) == Elem("group", <<open, close>>, 0)

\* \.+
DotsPlus == Elem("\\.+", <<>>, 0)

\* .{1}
AnyChar == Elem(".", <<>>, 0)

\* [^\x20-\x7E]
NonPrintable == Elem("[^\\x20-\\x7E]", <<>>, 0)

\* s[i..j] matches the element e
MatchElem(e, s, i, j) ==
    CASE e.k = "lit" -> j - i + 1 = Len(e.s) /\ \A p \in i..j : toLowerChar(s[p]) = e.s[p - i + 1]
      [] e.k = "alt" ->
            \E a \in 1..Len(e.s) :
                j - i + 1 = Len(e.s[a]) /\ \A p \in i..j : toLowerChar(s[p]) = e.s[a][p - i + 1]
      [] e.k = "\\s" -> j - i + 1 >= e.n /\ \A p \in i..j : IsSpace(s[p])
      [] e.k = "\\d+" -> j >= i /\ \A p \in i..j : s[p] \in Digits
      [] e.k = "\\d{n}" -> j - i + 1 = e.n /\ \A p \in i..j : s[p] \in Digits
      [] e.k = "[a-f0-9]+" -> j >= i /\ \A p \in i..j : toLowerChar(s[p]) \in HexDigits
      [] e.k = "(\\.\\d+)*" ->
            /\ \A p \in i..j : s[p] \in Digits \cup {"."}
            /\ j >= i => s[i] = "." /\ s[j] # "."
            /\ \A p \in i..(j - 1) : ~(s[p] = "." /\ s[p + 1] = ".")
      [] e.k = "group" ->
            j > i /\ s[i] = e.s[1] /\ s[j] = e.s[2] /\ \A p \in (i + 1)..(j - 1) : s[p] # e.s[2]
      [] e.k = "\\.+" -> j >= i /\ \A p \in i..j : s[p] = "."
      [] e.k = "." -> j = i /\ s[i] # "\n"
      [] e.k = "[^\\x20-\\x7E]" -> j = i /\ s[i] \notin Printable

\* s[i..j] matches the elements k, k + 1, ... of es
RECURSIVE MatchFrom(_, _, _, _, _)
MatchFrom(es, k, s, i, j) ==
    IF k > Len(es) THEN i = j + 1
    ELSE \E m \in (i - 1)..j : MatchElem(es[k], s, i, m) /\ MatchFrom(es, k + 1, s, m + 1, j)

\* A pattern: its elements, whether it starts with ^ and ends with $, and whether
\* it starts with ^(.+?), a group that takes as few characters as it can
Regex(src, elems, atStart, atEnd) ==
    [source |-> src, elems |-> elems, atStart |-> atStart, atEnd |-> atEnd, group |-> FALSE]

GroupRegex(src, elems) ==
    [source |-> src, elems |-> elems, atStart |-> TRUE, atEnd |-> TRUE, group |-> TRUE]

\* The positions where a match of re may start and end
MatchStarts(re, s) ==
    IF re.group THEN 2..(Len(s) + 1) ELSE IF re.atStart THEN {1} ELSE 1..(Len(s) + 1)

MatchEnds(re, s, i) == IF re.atEnd THEN {Len(s)} ELSE (i - 1)..Len(s)

\* RegExp.prototype.test
test(re, s) ==
    \E i \in MatchStarts(re, s) : \E j \in MatchEnds(re, s, i) : MatchFrom(re.elems, 1, s, i, j)

\* s.replace(re, '') for a pattern that ends with $, and s.replace(re, '$1') for one
\* that starts with ^(.+?) as well: the leftmost match goes, what stands before it stays
replaceTail(s, re) ==
    SubSeq(s, 1, Min({Len(s) + 1} \cup {i \in MatchStarts(re, s) :
                                          MatchFrom(re.elems, 1, s, i, Len(s))}) - 1)
-----------------------------------------------------------------------------
(* font-name-extractor.js: the tables *)

\* Font-specific cleanup rules
FONT_SPECIFIC_CLEANUP ==
    << [fontName |-> Chars("Questa Regular"),
        patterns |-> << Regex("\\s*Webfont$", <<Ws, Text("Webfont")>>, FALSE, TRUE),
                        Regex("\\s*Regular$", <<Ws, Text("Regular")>>, FALSE, TRUE) >>],
       [fontName |-> Chars("Inter"),
        patterns |-> << Regex("\\s*Variable$", <<Ws, Text("Variable")>>, FALSE, TRUE),
                        Regex("\\s*VF$", <<Ws, Text("VF")>>, FALSE, TRUE) >>],
       [fontName |-> Chars("IBM Plex"),
        patterns |-> << Regex("\\s*Var$", <<Ws, Text("Var")>>, FALSE, TRUE),
                        Regex("\\s*Variable$", <<Ws, Text("Variable")>>, FALSE, TRUE) >>] >>

\* Names that are no font names
INVALID_NAME_PATTERNS ==
    << Regex("^\\.+$", <<DotsPlus>>, TRUE, TRUE),
       Regex("^\\s*$", <<Ws>>, TRUE, TRUE),
       Regex("^.{1}$", <<AnyChar>>, TRUE, TRUE),
       Regex("ilovetypography", <<Text("ilovetypography")>>, FALSE, FALSE),
       Regex("for\\s+use\\s+only", <<Text("for"), WsPlus, Text("use"), WsPlus, Text("only")>>,
             FALSE, FALSE),
       Regex("version\\s+\\d", <<Text("version"), WsPlus, DigitsN(1)>>, FALSE, FALSE),
       Regex("git-", <<Text("git-")>>, FALSE, FALSE),
       Regex("\\d{4}-\\d{2}-\\d{2}",
             <<DigitsN(4), Text("-"), DigitsN(2), Text("-"), DigitsN(2)>>, FALSE, FALSE),
       Regex("\\.(ttf|otf|woff|woff2)$",
             <<Text("."), OneOf(<<"ttf", "otf", "woff", "woff2">>)>>, FALSE, TRUE),
       Regex("test\\s*font", <<Text("test"), Ws, Text("font")>>, FALSE, FALSE),
       Regex("sample", <<Text("sample")>>, FALSE, FALSE),
       Regex("demo", <<Text("demo")>>, FALSE, FALSE),
       Regex("placeholder", <<Text("placeholder")>>, FALSE, FALSE),
       Regex("untitled", <<Text("untitled")>>, FALSE, FALSE),
       Regex("^font\\s*$", <<Text("font"), Ws>>, TRUE, TRUE),
       Regex("^regular\\s*$", <<Text("regular"), Ws>>, TRUE, TRUE),
       Regex("^bold\\s*$", <<Text("bold"), Ws>>, TRUE, TRUE),
       Regex("^italic\\s*$", <<Text("italic"), Ws>>, TRUE, TRUE),
       Regex("^\\d+$", <<DigitsPlus>>, TRUE, TRUE),
       Regex("[^\\x20-\\x7E]", <<NonPrintable>>, FALSE, FALSE) >>

Always == "always"

NoOtherWeightStyle == "noOtherWeightStyle"

Cleanup(re, condition) == [pattern |-> re, condition |-> condition]

\* Suffixes that cleanupFontName removes, in order; the last entry of the source's
\* table, /\s+/g, is collapseSpaces
CLEANUP_PATTERNS ==
    << Cleanup(Regex("\\s*-webfont$", <<Ws, Text("-webfont")>>, FALSE, TRUE), Always),
       Cleanup(Regex("-webfont$", <<Text("-webfont")>>, FALSE, TRUE), Always),
       Cleanup(Regex("\\s*webfont$", <<Ws, Text("webfont")>>, FALSE, TRUE), Always),
       Cleanup(Regex("\\s*Web\\s*Font$", <<Ws, Text("Web"), Ws, Text("Font")>>, FALSE, TRUE),
               Always),
       Cleanup(Regex("\\s*VF$", <<Ws, Text("VF")>>, FALSE, TRUE), Always),
       Cleanup(Regex("\\s*Variable$", <<Ws, Text("Variable")>>, FALSE, TRUE), Always),
       Cleanup(Regex("\\s*Var$", <<Ws, Text("Var")>>, FALSE, TRUE), Always),
       Cleanup(Regex("\\s*\\d+\\s*$", <<Ws, DigitsPlus, Ws>>, FALSE, TRUE), Always),
       Cleanup(Regex("\\s*v\\d+(\\.\\d+)*\\s*$", <<Ws, Text("v"), DigitsPlus, DotNums, Ws>>,
                     FALSE, TRUE), Always),
       Cleanup(Regex("\\s*version\\s*\\d+\\s*$", <<Ws, Text("version"), Ws, DigitsPlus, Ws>>,
                     FALSE, TRUE), Always),
       Cleanup(Regex("\\s*git-[a-f0-9]+\\s*$", <<Ws, Text("git-"), HexPlus, Ws>>, FALSE, TRUE),
               Always),
       Cleanup(Regex("\\s*\\([^)]*\\)\\s*$", <<Ws, Group("(", ")"), Ws>>, FALSE, TRUE), Always),
       Cleanup(Regex("\\s*\\[[^\\]]*\\]\\s*$", <<Ws, Group("[", "]"), Ws>>, FALSE, TRUE), Always),
       Cleanup(Regex("\\s*\\{[^}]*\\}\\s*$", <<Ws, Group("{", "}"), Ws>>, FALSE, TRUE), Always),
       Cleanup(GroupRegex("^(.+?)\\s*-\\s*Regular$", <<Ws, Text("-"), Ws, Text("Regular")>>),
               NoOtherWeightStyle),
       Cleanup(GroupRegex("^(.+?)\\s*Regular$", <<Ws, Text("Regular")>>), NoOtherWeightStyle),
       Cleanup(GroupRegex("^(.+?)\\s*-\\s*Normal$", <<Ws, Text("-"), Ws, Text("Normal")>>),
               NoOtherWeightStyle),
       Cleanup(GroupRegex("^(.+?)\\s*Normal$", <<Ws, Text("Normal")>>), NoOtherWeightStyle) >>

\* The words of the weight/style test of cleanupFontName
WeightStyleWords ==
    {Chars(w) : w \in {"thin", "light", "regular", "medium", "semibold", "bold", "heavy",
                       "black", "ultra", "extra", "italic", "oblique"}}

-----------------------------------------------------------------------------
(* font-name-extractor.js: the functions on strings *)

isValidFontName(name) ==
    /\ name # <<>>
    /\ \A k \in 1..Len(INVALID_NAME_PATTERNS) : ~test(INVALID_NAME_PATTERNS[k], trim(name))
    /\ Len(trim(name)) >= 2
    /\ \E i \in 1..Len(trim(name)) : trim(name)[i] \in Letters

\* cleaned after the patterns k, k + 1, ... of ps
RECURSIVE replaceEach(_, _, _)
replaceEach(cleaned, ps, k) ==
    IF k > Len(ps) THEN cleaned
    ELSE Let([next \in {replaceTail(cleaned, ps[k])} |-> replaceEach(next, ps, k + 1)])

\* The font-specific rules of entry k, when the name includes the entry's font name
fontSpecificCleanup(cleaned, k) ==
    IF includes(toLowerCase(cleaned), toLowerCase(FONT_SPECIFIC_CLEANUP[k].fontName))
    THEN replaceEach(cleaned, FONT_SPECIFIC_CLEANUP[k].patterns, 1)
    ELSE cleaned

hasWeightStyle(cleaned) ==
    \E w \in WeightStyleWords : \E i \in 1..Len(cleaned) : WordAt(cleaned, w, i)

\* The general patterns k, k + 1, ...; a conditional one is skipped when skip holds
RECURSIVE generalCleanup(_, _, _)
generalCleanup(cleaned, skip, k) ==
    IF k > Len(CLEANUP_PATTERNS) THEN cleaned
    ELSE IF CLEANUP_PATTERNS[k].condition = NoOtherWeightStyle /\ skip
         THEN generalCleanup(cleaned, skip, k + 1)
         ELSE Let([next \in {replaceTail(cleaned, CLEANUP_PATTERNS[k].pattern)} |->
                      generalCleanup(next, skip, k + 1)])

cleanupFontName(name) ==
    Let([specific \in {fontSpecificCleanup(fontSpecificCleanup(fontSpecificCleanup(
                           trim(name), 1), 2), 3)} |->
    Let([skip \in {hasWeightStyle(specific)} |->
        trim(collapseSpaces(generalCleanup(specific, skip, 1)))])])
-----------------------------------------------------------------------------
(* Node's path module, for paths whose parts are separated by one "/" *)

\* The position of the last "/" before position n, 0 when there is none
LastSlash(p, n) == Max({0} \cup {i \in 1..n : p[i] = "/"})

\* The end of p without its trailing "/"s
PathEnd(p) == Max({0} \cup {i \in 1..Len(p) : p[i] # "/"})

\* path.extname of a file name: from its last ".", unless that is its first
\* character or the name is ".."
extnameOf(base) ==
    IF Max({0} \cup {i \in 1..Len(base) : base[i] = "."}) <= 1 \/ base = <<".", ".">>
    THEN <<>>
    ELSE SubSeq(base, Max({i \in 1..Len(base) : base[i] = "."}), Len(base))

\* path.basename(p)
basename(p) == SubSeq(p, LastSlash(p, PathEnd(p)) + 1, PathEnd(p))

\* path.extname(p)
extname(p) == extnameOf(basename(p))

\* path.basename(p, ext)
basenameWithout(p, ext) ==
    IF ext # <<>> /\ Len(basename(p)) > Len(ext)
       /\ SubSeq(basename(p), Len(basename(p)) - Len(ext) + 1, Len(basename(p))) = ext
    THEN SubSeq(basename(p), 1, Len(basename(p)) - Len(ext))
    ELSE basename(p)

\* path.dirname(p)
dirname(p) ==
    IF LastSlash(p, PathEnd(p)) = 0 THEN <<".">>
    ELSE IF LastSlash(p, PathEnd(p)) = 1 THEN <<"/">>
    ELSE SubSeq(p, 1, LastSlash(p, PathEnd(p)) - 1)

-----------------------------------------------------------------------------
(* JS values: undefined, null, strings, numbers and objects with their own keys *)

JsValue(t, s, keys, vals) == [t |-> t, s |-> s, keys |-> keys, vals |-> vals]

Undefined == JsValue("undefined", <<>>, <<>>, <<>>)

JsNull == JsValue("null", <<>>, <<>>, <<>>)

JsString(s) == JsValue("string", s, <<>>, <<>>)

JsNumber(n) == JsValue("number", <<n>>, <<>>, <<>>)

JsObject(keys, vals) == JsValue("object", <<>>, keys, vals)

JsArray(vals) == JsValue("array", <<>>, <<>>, vals)

\* The value in a condition
Truthy(v) ==
    \/ v.t \in {"object", "array"}
    \/ v.t = "string" /\ v.s # <<>>
    \/ v.t = "number" /\ v.s[1] # 0

\* v[key] for a value that is not null or undefined
Get(v, key) ==
    IF v.t = "object" /\ \E i \in 1..Len(v.keys) : v.keys[i] = key
    THEN v.vals[CHOOSE i \in 1..Len(v.keys) : v.keys[i] = key]
    ELSE Undefined

\* Reading a property of null or undefined, or calling what is no function,
\* raises a TypeError
TypeError(message) == Throw("TypeError", message)

-----------------------------------------------------------------------------
(* font-name-extractor.js: the sources of a name *)

\* The filename part with its leading number kept
nameFromFilenameWithNumber(fontPath) ==
    trim(removeWords(separatorsToSpaces(basenameWithout(fontPath, extname(fontPath))),
                     {Chars("webfont")}))

\* The filename part extractFontNameFromPath cleans
nameFromFilename(fontPath) ==
    trim(removeWords(separatorsToSpaces(removeLeadingNumber(
        basenameWithout(fontPath, extname(fontPath)))), {Chars("webfont")}))

\* The parent directory's name, likewise
nameFromParentDir(fontPath) ==
    trim(removeWords(separatorsToSpaces(basename(dirname(fontPath))),
                     {Chars("font"), Chars("fonts")}))

\* A name when valid, else what comes next
validOr(name, otherwise) == IF isValidFontName(name) THEN JsString(name) ELSE otherwise

extractFontNameFromPath(fontPath) ==
    validOr(cleanupFontName(nameFromFilename(fontPath)),
            validOr(cleanupFontName(nameFromParentDir(fontPath)), JsNull))

\* The order in which the name records are tried
nameProperties == <<"preferredFamily", "fontFamily", "fullName", "postScriptName">>

\* The first entry of a record, English or not
firstLanguageOfRecord(record) ==
    IF record.t = "string" THEN record
    ELSE IF record.t \in {"object", "array"} /\ Len(record.vals) > 0 THEN record.vals[1]
    ELSE JsNull

\* The name a record holds: its English entry, itself when a string, else its
\* first entry
nameOfRecord(record) ==
    IF Truthy(Get(record, "en")) THEN Get(record, "en")
    ELSE IF record.t = "string" THEN record
    ELSE IF record.t \in {"object", "array"} /\ Len(record.vals) > 0 THEN record.vals[1]
    ELSE JsNull

\* The cleaned name of record prop of names, when it is a valid one
candidateOf(names, prop) ==
    IF Truthy(Get(names, prop)) /\ Truthy(nameOfRecord(Get(names, prop)))
       /\ nameOfRecord(Get(names, prop)).t = "string"
    THEN validOr(cleanupFontName(nameOfRecord(Get(names, prop)).s), JsNull)
    ELSE JsNull

\* The first valid candidate in the order of nameProperties
firstCandidate(names) ==
    IF \E k \in 1..Len(nameProperties) : candidateOf(names, nameProperties[k]) # JsNull
    THEN candidateOf(names, nameProperties[
             Min({k \in 1..Len(nameProperties) : candidateOf(names, nameProperties[k]) # JsNull})])
    ELSE JsNull

extractFontNameFromNameTable(nameTable) ==
    IF ~Truthy(nameTable) \/ nameTable.t \notin {"object", "array"} THEN JsNull
    ELSE firstCandidate(nameTable)

extractFontNameFromOpenType(otFont) ==
    IF ~Truthy(otFont) \/ ~Truthy(Get(otFont, "names")) THEN JsNull
    ELSE firstCandidate(Get(otFont, "names"))

\* The file name without its extension, separators turned into spaces, trimmed
rawFilename(fontPath) == trim(separatorsToSpaces(basenameWithout(fontPath, extname(fontPath))))

\* The last resort without its literal: the file name alone, empty or not
filenameAlone(fontPath) == JsString(rawFilename(fontPath))

\* Last resort: the file name without extension, or "Unknown Font"
absoluteFallback(fontPath) ==
    IF rawFilename(fontPath) # <<>> THEN JsString(rawFilename(fontPath))
    ELSE JsString(Chars("Unknown Font"))

-----------------------------------------------------------------------------
(* fontkit-parser.js: extractFontName *)

\* Name IDs and platform IDs in the order extractFontName tries them
priorityNameIDs == <<1, 4, 6, 16>>

platformIDs == <<3, 0, 1>>

\* names.find(n => n.nameID === nameID && n.platformID === platformID)
findEntry(names, nameID, platformID) ==
    IF \E k \in 1..Len(names.vals) :
          Get(names.vals[k], "nameID") = JsNumber(nameID)
          /\ Get(names.vals[k], "platformID") = JsNumber(platformID)
    THEN names.vals[Min({k \in 1..Len(names.vals) :
                            Get(names.vals[k], "nameID") = JsNumber(nameID)
                            /\ Get(names.vals[k], "platformID") = JsNumber(platformID)})]
    ELSE Undefined

\* The value of the entry tried at place k, k = 1, ..., 12: name IDs in order,
\* for each the platforms in order
valueAt(names, k) ==
    Get(findEntry(names, priorityNameIDs[((k - 1) \div Len(platformIDs)) + 1],
                  platformIDs[((k - 1) % Len(platformIDs)) + 1]), "value")

\* A result the method loop takes: a string that is not blank
IsName(v) == v.t = "string" /\ trim(v.s) # <<>>

\* Modern API: the first entry whose value is truthy
namesArrayName(nameTable) ==
    IF Get(nameTable, "names").t = "array"
       /\ \E k \in 1..(Len(priorityNameIDs) * Len(platformIDs)) :
             Truthy(valueAt(Get(nameTable, "names"), k))
    THEN valueAt(Get(nameTable, "names"),
                 Min({k \in 1..(Len(priorityNameIDs) * Len(platformIDs)) :
                         Truthy(valueAt(Get(nameTable, "names"), k))}))
    ELSE JsNull

\* Direct access to the names: the first entry whose value is not blank
namesEntriesName(nameTable) ==
    IF Truthy(Get(nameTable, "names"))
       /\ \E k \in 1..(Len(priorityNameIDs) * Len(platformIDs)) :
             IsName(valueAt(Get(nameTable, "names"), k))
    THEN valueAt(Get(nameTable, "names"),
                 Min({k \in 1..(Len(priorityNameIDs) * Len(platformIDs)) :
                         IsName(valueAt(Get(nameTable, "names"), k))}))
    ELSE JsNull

\* Direct property access: the first of the four records with an English entry
directPropertyName(nameTable) ==
    IF \E k \in 1..Len(nameProperties) : Truthy(Get(Get(nameTable, nameProperties[k]), "en"))
    THEN Get(Get(nameTable, nameProperties[Min({k \in 1..Len(nameProperties) :
                     Truthy(Get(Get(nameTable, nameProperties[k]), "en"))})]), "en")
    ELSE JsNull

\* Method 1: the extraction methods in order (the legacy getEnglishName method
\* finds no such function on a table of records); the first name, trimmed
nameTableName(nameTable) ==
    IF ~Truthy(nameTable) THEN JsNull
    ELSE IF IsName(namesArrayName(nameTable)) THEN JsString(trim(namesArrayName(nameTable).s))
    ELSE IF IsName(namesEntriesName(nameTable)) THEN JsString(trim(namesEntriesName(nameTable).s))
    ELSE IF IsName(directPropertyName(nameTable))
         THEN JsString(trim(directPropertyName(nameTable).s))
    ELSE JsNull

\* The opentype.js names tried at place k, k = 1, ..., 8: the English entries of
\* the four records, then their first entries
openTypeValueAt(names, k) ==
    IF k <= Len(nameProperties) THEN Get(Get(names, nameProperties[k]), "en")
    ELSE IF Len(Get(names, nameProperties[k - Len(nameProperties)]).vals) > 0
         THEN Get(names, nameProperties[k - Len(nameProperties)]).vals[1]
         ELSE Undefined

\* The opentype.js fallback: fontName after it. A font that does not load, or one
\* without names, raises inside the try block and leaves fontName as it was.
openTypeName(fontName, otFont) ==
    IF ~(~Truthy(fontName) \/ trim(fontName.s) = <<>> \/ trim(fontName.s) = <<".">>)
       \/ ~Truthy(otFont) \/ ~Truthy(Get(otFont, "names"))
    THEN fontName
    ELSE IF \E k \in 1..(2 * Len(nameProperties)) : Truthy(openTypeValueAt(Get(otFont, "names"), k))
         THEN JsString(trim(openTypeValueAt(Get(otFont, "names"),
                  Min({k \in 1..(2 * Len(nameProperties)) :
                          Truthy(openTypeValueAt(Get(otFont, "names"), k))})).s))
         ELSE Undefined

\* The literal text (in any case) stands at position p of s
HasText(s, text, p) == p + Len(text) - 1 <= Len(s) /\ MatchElem(Text(text), s, p, p + Len(text) - 1)

\* The first position from p on where s has the character c, Len(s) + 1 when none
FirstChar(s, c, p) == Min({Len(s) + 1} \cup {k \in p..Len(s) : s[k] = c})

\* <text[^>]*>([^<]+)<\/text> at t: where the captured text starts
captureStart(s, t) == FirstChar(s, ">", t + 5) + 1

\* ... and where it ends; less than its start when the tag at t does not match
captureEnd(s, t) ==
    IF HasText(s, "<text", t) /\ HasText(s, "</text>", FirstChar(s, "<", captureStart(s, t)))
    THEN FirstChar(s, "<", captureStart(s, t)) - 1
    ELSE 0

\* /<description[^>]*>.*?<text[^>]*>([^<]+)<\/text>/i: the text tags that match after
\* the description tag at i, on the same line
textTagsAfter(s, i) ==
    {t \in (FirstChar(s, ">", i + 12) + 1)..Len(s) :
        /\ HasText(s, "<description", i)
        /\ captureEnd(s, t) >= captureStart(s, t)
        /\ \A p \in (FirstChar(s, ">", i + 12) + 1)..(t - 1) : s[p] # "\n"}

\* metadata.match(...)[1].trim(): the text of the first match, trimmed
metaDescription(s) ==
    IF \E i \in 1..Len(s) : textTagsAfter(s, i) # {}
    THEN JsString(trim(SubSeq(s,
             captureStart(s, Min(textTagsAfter(s, Min({i \in 1..Len(s) : textTagsAfter(s, i) # {}})))),
             captureEnd(s, Min(textTagsAfter(s, Min({i \in 1..Len(s) : textTagsAfter(s, i) # {}})))))))
    ELSE Undefined

\* Method 2, WOFF metadata, and method 3, the OS/2 vendor ID: fontName after them
tablesName(fontName, font) ==
    IF Truthy(fontName) THEN fontName
    ELSE IF Get(font, "meta").t = "string" /\ Truthy(metaDescription(Get(font, "meta").s))
         THEN metaDescription(Get(font, "meta").s)
    ELSE IF Truthy(Get(font, "os2")) /\ Truthy(Get(Get(font, "os2"), "achVendID"))
         THEN Get(Get(font, "os2"), "achVendID")
    ELSE fontName

\* .replace(/\b\w/g, l => l.toUpperCase())
titleCase(s) ==
    Str([i \in 1..Len(s) |-> IF WordBoundary(s, i) /\ IsWordChar(s[i])
                              THEN toUpperChar(s[i]) ELSE s[i]], Len(s))

\* The weight/style words the filename fallback removes, wherever they stand
StyleWords ==
    {Chars(w) : w \in {"Regular", "Normal", "Std", "Pro", "Bold", "Italic", "Light", "Medium",
                       "Heavy", "Black", "Thin", "Ultra", "Extra"}}

\* .replace(/Regular|Normal|...|Extra/g, '')
removeStyleWords(s) ==
    Pick(s, {k \in 1..Len(s) :
                ~\E w \in StyleWords : \E i \in (k - Len(w) + 1)..k :
                     i >= 1 /\ i + Len(w) - 1 <= Len(s) /\ SubSeq(s, i, i + Len(w) - 1) = w})

\* Method 5: the name made from the filename, the filename itself when that is empty
filenameName(filename) ==
    IF trim(removeStyleWords(collapseSpaces(titleCase(separatorsToSpaces(filename))))) # <<>>
    THEN trim(removeStyleWords(collapseSpaces(titleCase(separatorsToSpaces(filename)))))
    ELSE filename

\* Final cleanup: the name trimmed, the filename when nothing is left. String
\* methods on a value that is no string raise a TypeError.
finalFontName(fontName, filename) ==
    IF ~Truthy(fontName) THEN Return(fontName)
    ELSE IF fontName.t # "string" THEN TypeError("fontName.replace is not a function")
    ELSE IF trim(fontName.s) # <<>> THEN Return(JsString(trim(fontName.s)))
    ELSE Return(JsString(filename))

\* extractFontName(font, fontPath), otFont being what opentype.load(fontPath) gives
\* (null when it fails)
extractFontName(font, fontPath, otFont) ==
    Let([fontName \in {tablesName(openTypeName(nameTableName(Get(font, "name")), otFont), font)} |->
        finalFontName(IF Truthy(fontName) THEN fontName
                      ELSE JsString(filenameName(basenameWithout(fontPath, extname(fontPath)))),
                      basenameWithout(fontPath, extname(fontPath)))])
-----------------------------------------------------------------------------
(* BaselineNudgeGenerator: tokens, nudges and SCSS from a configuration.
   An absent string property is "", an absent fontWeight 0, which the code's
   x || default treats alike; an optional object or array, and an element's
   spaceAfter, is <<>> or <<value>>. *)

\* `${x}rem`
Rem(x) == [n |-> x, unit |-> "rem"]

\* cleanClassname
cleanClassname(classname) ==
    IF classname = "" THEN Chars("unknown")
    ELSE Let([name \in {Chars(IF SubSeq(classname, 1, 1) = "."
                              THEN SubSeq(classname, 2, Len(classname)) ELSE classname)} |->
             Str([i \in 1..Len(name) |->
                     IF IsWordChar(name[i]) \/ name[i] = "-" THEN name[i] ELSE "_"], Len(name))])

\* identifier || classname || tag || 'element'
elementName(element) ==
    IF element.identifier # "" THEN element.identifier
    ELSE IF element.classname # "" THEN element.classname
    ELSE IF element.tag # "" THEN element.tag
    ELSE "element"

\* The object that obj[names[k]] = values[k], for k = 1, 2, ..., builds
objectOf(names, values) ==
    [name \in {names[k] : k \in 1..Len(names)} |->
        values[Max({k \in 1..Len(names) : names[k] = name})]]

\* Properties every object inherits from Object.prototype
ObjectPrototypeKeys ==
    {"constructor", "toString", "toLocaleString", "valueOf", "hasOwnProperty",
     "isPrototypeOf", "propertyIsEnumerable", "__proto__"}

\* map[key]: <<the map's own entry>>, else <<an inherited property>>, else <<>>
\* for undefined
lookup(map, key) ==
    IF \E k \in 1..Len(map.keys) : map.keys[k] = key
    THEN << map.vals[CHOOSE k \in 1..Len(map.keys) : map.keys[k] = key] >>
    ELSE IF key \in ObjectPrototypeKeys THEN << [inherited |-> key] >>
    ELSE <<>>

\* keys.join(', ') from key k on
RECURSIVE join(_, _)
join(keys, k) ==
    IF k > Len(keys) THEN ""
    ELSE IF k = Len(keys) THEN keys[k]
    ELSE keys[k] \o ", " \o join(keys, k + 1)

FamilyNotFound(family, map) ==
    Throw("Error", "Font family \"" \o family \o "\" not found in fontMetricsMap. Available: "
                   \o join(map.keys, 1))

\* fontFamily || 'sans'
familyOf(element) == IF element.fontFamily # "" THEN element.fontFamily ELSE "sans"

\* (spaceAfter || 4) * baselineUnit
spaceAfterRem(element, baselineUnit) ==
    FMul(IF element.spaceAfter # <<>> /\ ~FIsZero(Lit(element.spaceAfter[1]))
         THEN Lit(element.spaceAfter[1]) ELSE FromInt(4),
         Lit(baselineUnit))

\* The nudge of an element with the metrics fm: what calculateNudgeRem returns
nudgeTop(fm, element, baselineUnit) ==
    calculateNudgeRem(fm, Lit(element.fontSize), Lit(element.lineHeight), Lit(baselineUnit)).value

\* The token of an element in the multi-font format
multiFontToken(element, fm, baselineUnit) ==
    [fontSize |-> Rem(Lit(element.fontSize)),
     lineHeight |-> Rem(FMul(Lit(element.lineHeight), Lit(baselineUnit))),
     fontFamily |-> familyOf(element),
     fontWeight |-> IF element.fontWeight # 0 THEN element.fontWeight ELSE 400,
     fontStyle |-> IF element.fontStyle # "" THEN element.fontStyle ELSE "normal",
     spaceAfter |-> Rem(spaceAfterRem(element, baselineUnit)),
     nudgeTop |-> Rem(nudgeTop(fm, element, baselineUnit))]

\* ... and in the legacy single-font format
singleFontToken(element, fm, baselineUnit) ==
    [fontSize |-> Rem(Lit(element.fontSize)),
     lineHeight |-> Rem(FMul(Lit(element.lineHeight), Lit(baselineUnit))),
     fontWeight |-> IF fm.fontWeight # 0 THEN fm.fontWeight ELSE 400,
     spaceAfter |-> Rem(spaceAfterRem(element, baselineUnit)),
     nudgeTop |-> Rem(nudgeTop(fm, element, baselineUnit))]

\* The clean names of the elements, in order
cleanNames(elements) ==
    [k \in 1..Len(elements) |-> cleanClassname(elementName(elements[k]))]

\* generateTokens(config, fontMetricsMap) of a generator whose fontMetrics is fm
generateTokens(fm, config, fontMetricsMap) ==
    IF config.fontFiles # <<>> /\ fontMetricsMap # <<>>
    THEN IF \E k \in 1..Len(config.elements) :
                lookup(fontMetricsMap[1], familyOf(config.elements[k])) = <<>>
         THEN FamilyNotFound(familyOf(config.elements[
                  Min({k \in 1..Len(config.elements) :
                          lookup(fontMetricsMap[1], familyOf(config.elements[k])) = <<>>})]),
                  fontMetricsMap[1])
         ELSE Return([baselineUnit |-> Rem(Lit(config.baselineUnit)),
                      fontFiles |-> config.fontFiles[1],
                      elements |-> objectOf(cleanNames(config.elements),
                          [k \in 1..Len(config.elements) |->
                              multiFontToken(config.elements[k],
                                  lookup(fontMetricsMap[1], familyOf(config.elements[k]))[1],
                                  config.baselineUnit)])])
    ELSE IF fm = Null THEN TypeError("Cannot read properties of null (reading 'fontName')")
    ELSE Return([font |-> IF fm.fontName # "" THEN fm.fontName ELSE "Unknown Font",
                 fontWeight |-> IF fm.fontWeight # 0 THEN fm.fontWeight ELSE 400,
                 baselineUnit |-> Rem(Lit(config.baselineUnit)),
                 fontFile |-> config.fontFile,
                 elements |-> objectOf(cleanNames(config.elements),
                     [k \in 1..Len(config.elements) |->
                         singleFontToken(config.elements[k], fm, config.baselineUnit)])])

\* parseFloat of `${x}rem`: the number x again, since a number's decimal text
\* reads back as the same number and "NaNrem" reads as NaN
parseFloat(rem) == rem.n

\* `${fontMetrics.fontName}` for an entry fontMetricsMap[family] gave
fontNameOf(entry) ==
    IF "inherited" \in DOMAIN entry THEN "undefined"
    ELSE IF entry.fontName = "" THEN "undefined"
    ELSE entry.fontName

\* The CSS rule generateHTML writes for an element's token
cssRule(props, isMultiFont, fontMetricsMap) ==
    Let([marginBottom \in {FSub(parseFloat(props.spaceAfter), parseFloat(props.nudgeTop))} |->
        IF isMultiFont
        THEN [fontSize |-> props.fontSize, lineHeight |-> props.lineHeight,
              fontFamily |-> fontNameOf(lookup(fontMetricsMap[1], props.fontFamily)[1]),
              fontWeight |-> props.fontWeight, fontStyle |-> props.fontStyle,
              paddingTop |-> props.nudgeTop, marginBottom |-> Rem(marginBottom),
              marginTop |-> 0]
        ELSE [fontSize |-> props.fontSize, lineHeight |-> props.lineHeight,
              fontWeight |-> props.fontWeight,
              paddingTop |-> props.nudgeTop, marginBottom |-> Rem(marginBottom),
              marginTop |-> 0]])

UndefinedFontName == TypeError("Cannot read properties of undefined (reading 'fontName')")

\* generateHTML(tokens, fontMetricsMap): the font faces, the body font, the grid
\* unit and the rule of each element of the page
generateHTML(tokens, fontMetricsMap) ==
    IF "fontFiles" \in DOMAIN tokens /\ fontMetricsMap # <<>>
    THEN IF \E k \in 1..Len(tokens.fontFiles) :
                lookup(fontMetricsMap[1], tokens.fontFiles[k].family) = <<>>
         THEN UndefinedFontName
         ELSE IF fontMetricsMap[1].keys = <<>> THEN UndefinedFontName
         ELSE IF \E name \in DOMAIN tokens.elements :
                    lookup(fontMetricsMap[1], tokens.elements[name].fontFamily) = <<>>
         THEN UndefinedFontName
         ELSE Return([fontFaces |-> [k \in 1..Len(tokens.fontFiles) |->
                          fontNameOf(lookup(fontMetricsMap[1], tokens.fontFiles[k].family)[1])],
                      bodyFont |-> IF lookup(fontMetricsMap[1], "sans") # <<>>
                                   THEN fontNameOf(lookup(fontMetricsMap[1], "sans")[1])
                                   ELSE fontNameOf(fontMetricsMap[1].vals[1]),
                      gridUnit |-> parseFloat(tokens.baselineUnit),
                      rules |-> [name \in DOMAIN tokens.elements |->
                                    cssRule(tokens.elements[name], TRUE, fontMetricsMap)]])
    ELSE IF "fontFile" \notin DOMAIN tokens \/ tokens.fontFile = ""
    THEN TypeError("The \"path\" argument must be of type string. Received undefined")
    ELSE Return([fontFaces |-> <<tokens.font>>,
                 bodyFont |-> tokens.font,
                 gridUnit |-> parseFloat(tokens.baselineUnit),
                 rules |-> [name \in DOMAIN tokens.elements |->
                               cssRule(tokens.elements[name], FALSE, fontMetricsMap)]])

\* generateNudges(config), for a configuration in the new format (an elements array)
generateNudges(fm, config) ==
    IF fm = Null /\ Len(config.elements) > 0 THEN MetricsNotLoaded
    ELSE Return([nudges |-> objectOf([k \in 1..Len(config.elements) |->
                                         cleanClassname(config.elements[k].classname)],
                                     [k \in 1..Len(config.elements) |->
                                         nudgeTop(fm, config.elements[k], config.baselineUnit)]),
                 spAfters |-> objectOf([k \in 1..Len(config.elements) |->
                                           cleanClassname(config.elements[k].classname)],
                                       [k \in 1..Len(config.elements) |->
                                           FMul(FromInt(4), Lit(config.baselineUnit))])])

ScssMetricsNotLoaded ==
    Throw("Error", "Font metrics not loaded. Cannot generate SCSS without font file.")

\* generateScss(config): the variables of the SCSS text and their values
generateScss(fm, config) ==
    IF fm = Null THEN ScssMetricsNotLoaded
    ELSE Return([baselineUnit |-> Rem(Lit(config.baselineUnit)),
                 fontSizes |-> objectOf([k \in 1..Len(config.elements) |->
                                            cleanClassname(config.elements[k].classname)],
                                        [k \in 1..Len(config.elements) |->
                                            Rem(Lit(config.elements[k].fontSize))]),
                 lineHeights |-> objectOf([k \in 1..Len(config.elements) |->
                                              cleanClassname(config.elements[k].classname)],
                                          [k \in 1..Len(config.elements) |->
                                              Lit(config.elements[k].lineHeight)]),
                 nudges |-> generateNudges(fm, config).value.nudges,
                 spaceAfter |-> generateNudges(fm, config).value.spAfters,
                 fontAscent |-> fm.ascent, fontDescent |-> fm.descent,
                 fontLineGap |-> fm.lineGap, fontUnitsPerEm |-> fm.unitsPerEm,
                 fontWeight |-> IF fm.fontWeight # 0 THEN fm.fontWeight ELSE 400])

\* index.js generateTokens(config): a new generator, the font file's metrics when
\* config.fontFile names a file that findFontFile finds (fontOnDisk is <<its
\* metrics>>, <<>> when there is no such file)
indexGenerateTokens(config, fontOnDisk) ==
    generateTokens(IF config.fontFile # "" /\ fontOnDisk # <<>> THEN fontOnDisk[1] ELSE Null,
                   config, <<>>)

\* generateFile(inputPath, outputPath) for an input file that exists and holds
\* config: the font file's hhea metrics are loaded when config.fontFile is set,
\* the generator has none and the file is found and read (fontOnDisk); then
\* generateScss and generateNudges. The outcome is <<fontMetrics, outcome>>; the
\* metrics generateFile loads have no fontName and no fontWeight.
loadedByGenerateFile(fm, config, fontOnDisk) ==
    IF config.fontFile # "" /\ fm = Null /\ fontOnDisk # <<>>
    THEN fontOnDisk[1]
    ELSE fm

generateFile(fm, config, fontOnDisk) ==
    Let([loaded \in {loadedByGenerateFile(fm, config, fontOnDisk)} |->
    Let([scss \in {generateScss(loaded, config)} |->
        IF scss.kind = "throw" THEN <<loaded, scss>>
        ELSE Let([nudges \in {generateNudges(loaded, config)} |->
                 IF nudges.kind = "throw" THEN <<loaded, nudges>>
                 ELSE <<loaded, Return([nudges |-> nudges.value.nudges])>>])])])

-----------------------------------------------------------------------------
(* config-validator.js: validateConfig on the object JSON.parse gives.
   A number is JsNumber(n) or, for the decimal p/q, JsDecimal(p, q). *)

JsDecimal(p, q) == JsValue("number", <<p, q>>, <<>>, <<>>)

\* typeof v
typeof(v) == IF v.t \in {"null", "array"} THEN "object" ELSE v.t

\* The double of a number
toFloat(v) == IF Len(v.s) = 1 THEN FromInt(v.s[1]) ELSE Num(v.s[1], v.s[2])

\* Number.isInteger(x)
IsInteger(x) == FIsZero(x) \/ x.e >= 0 \/ ~FHasFrac(x)

\* A line height or space after that took multiples of 0.25, as the change log
\* has it
isMultipleOfQuarter(value) ==
    IF typeof(value) # "number" \/ FSign(toFloat(value)) <= 0 THEN FALSE
    ELSE IsInteger(FMul(toFloat(value), FromInt(4)))

isMultipleOfHalf(value) ==
    IF typeof(value) # "number" \/ FSign(toFloat(value)) <= 0 THEN FALSE
    ELSE IsInteger(FMul(toFloat(value), FromInt(2)))

\* An entry of errors or warnings: the prefix, the text and what the text quotes
Message(at, text, quoted) == [at |-> at, text |-> text, quoted |-> quoted]

\* errors.push(message) when the condition holds
When(condition, message) == IF condition THEN <<message>> ELSE <<>>

\* `${name}[${index}]`, index counting from 0
Indexed(name, index) ==
    name \o "[" \o <<"0", "1", "2", "3", "4", "5", "6", "7", "8", "9">>[index + 1] \o "]"

supportedExtensions == {Chars(".woff2"), Chars(".woff"), Chars(".ttf"), Chars(".otf")}

\* What is pushed for a font file's path that is a string; exists is fs.existsSync of
\* the resolved path
fontPathMessages(fontFilePath, exists) ==
    [errors |-> When(~exists, Message("", "Font file not found: ", fontFilePath.s)),
     warnings |-> When(exists /\ toLowerCase(extname(fontFilePath.s)) \notin supportedExtensions,
                       Message("", "Font file extension may not be supported",
                               toLowerCase(extname(fontFilePath.s))))]

fontFileErrors(fontFile, index, found) ==
    (IF ~Truthy(Get(fontFile, "path"))
     THEN <<Message(Indexed("fontFiles", index), ".path is required", <<>>)>>
     ELSE IF typeof(Get(fontFile, "path")) # "string"
     THEN <<Message(Indexed("fontFiles", index), ".path must be a string", <<>>)>>
     ELSE fontPathMessages(Get(fontFile, "path"), Get(fontFile, "path").s \in found).errors)
    \o (IF ~Truthy(Get(fontFile, "family"))
        THEN <<Message(Indexed("fontFiles", index), ".family is required", <<>>)>>
        ELSE When(typeof(Get(fontFile, "family")) # "string",
                  Message(Indexed("fontFiles", index), ".family must be a string", <<>>)))

fontFileWarnings(fontFile, found) ==
    IF Truthy(Get(fontFile, "path")) /\ typeof(Get(fontFile, "path")) = "string"
    THEN fontPathMessages(Get(fontFile, "path"), Get(fontFile, "path").s \in found).warnings
    ELSE <<>>

\* The sequences seqs[1], seqs[2], ... one after the other, from k on
RECURSIVE Flatten(_, _)
Flatten(seqs, k) == IF k > Len(seqs) THEN <<>> ELSE seqs[k] \o Flatten(seqs, k + 1)

\* The font file part of validateConfig
fontErrors(config, found) ==
    IF Truthy(Get(config, "fontFiles"))
    THEN IF Get(config, "fontFiles").t # "array" THEN <<Message("", "fontFiles must be an array", <<>>)>>
         ELSE Flatten([k \in 1..Len(Get(config, "fontFiles").vals) |->
                          fontFileErrors(Get(config, "fontFiles").vals[k], k - 1, found)], 1)
    ELSE IF Truthy(Get(config, "fontFile"))
    THEN IF typeof(Get(config, "fontFile")) # "string"
         THEN <<Message("", "fontFile must be a string", <<>>)>>
         ELSE fontPathMessages(Get(config, "fontFile"), Get(config, "fontFile").s \in found).errors
    ELSE <<Message("", "Either fontFile (legacy) or fontFiles (new format) is required", <<>>)>>

fontWarnings(config, found) ==
    IF Truthy(Get(config, "fontFiles"))
    THEN IF Get(config, "fontFiles").t # "array" THEN <<>>
         ELSE Flatten([k \in 1..Len(Get(config, "fontFiles").vals) |->
                          fontFileWarnings(Get(config, "fontFiles").vals[k], found)], 1)
    ELSE IF Truthy(Get(config, "fontFile")) /\ typeof(Get(config, "fontFile")) = "string"
    THEN fontPathMessages(Get(config, "fontFile"), Get(config, "fontFile").s \in found).warnings
    ELSE <<>>

\* config.fontFiles.map(f => f.family)
availableFamilies(config) ==
    [k \in 1..Len(Get(config, "fontFiles").vals) |-> Get(Get(config, "fontFiles").vals[k], "family")]

lineHeightError(index) ==
    Message(Indexed("elements", index),
            ".lineHeight must be a positive number that is a multiple of 0.5 (e.g., 1.0, 1.5, 2.0, 2.5, etc.)",
            <<>>)

spaceAfterError(index) ==
    Message(Indexed("elements", index),
            ".spaceAfter must be a positive number that is a multiple of 0.5 (e.g., 1.0, 1.5, 2.0, 2.5, etc.)",
            <<>>)

\* The errors of one element, in the order they are pushed
elementErrors(config, element, index) ==
    (IF ~Truthy(Get(element, "identifier")) /\ ~Truthy(Get(element, "classname"))
     THEN <<Message(Indexed("elements", index), ".identifier is required", <<>>)>>
     ELSE IF Truthy(Get(element, "identifier")) /\ typeof(Get(element, "identifier")) # "string"
     THEN <<Message(Indexed("elements", index), ".identifier must be a string", <<>>)>>
     ELSE When(Truthy(Get(element, "classname")) /\ typeof(Get(element, "classname")) # "string",
               Message(Indexed("elements", index), ".classname must be a string", <<>>)))
    \o (IF Get(element, "fontSize") = Undefined
        THEN <<Message(Indexed("elements", index), ".fontSize is required", <<>>)>>
        ELSE When(\/ typeof(Get(element, "fontSize")) # "number"
                  \/ FSign(toFloat(Get(element, "fontSize"))) <= 0,
                  Message(Indexed("elements", index), ".fontSize must be a positive number", <<>>)))
    \o (IF Get(element, "lineHeight") = Undefined
        THEN <<Message(Indexed("elements", index), ".lineHeight is required", <<>>)>>
        ELSE When(~isMultipleOfHalf(Get(element, "lineHeight")), lineHeightError(index)))
    \o When(Get(element, "spaceAfter") # Undefined /\ ~isMultipleOfHalf(Get(element, "spaceAfter")),
            spaceAfterError(index))
    \o When(/\ Truthy(Get(config, "fontFiles")) /\ Truthy(Get(element, "fontFamily"))
            /\ \A k \in 1..Len(availableFamilies(config)) :
                   availableFamilies(config)[k] # Get(element, "fontFamily"),
            Message(Indexed("elements", index), ".fontFamily not found in fontFiles. Available: ",
                    <<Get(element, "fontFamily"), availableFamilies(config)>>))
    \o When(/\ Get(element, "fontWeight") # Undefined
            /\ \/ typeof(Get(element, "fontWeight")) # "number"
               \/ FLt(toFloat(Get(element, "fontWeight")), FromInt(100))
               \/ FGt(toFloat(Get(element, "fontWeight")), FromInt(900)),
            Message(Indexed("elements", index), ".fontWeight must be a number between 100 and 900",
                    <<>>))
    \o When(/\ Get(element, "fontStyle") # Undefined
            /\ Get(element, "fontStyle") \notin {JsString(Chars("normal")), JsString(Chars("italic"))},
            Message(Indexed("elements", index), ".fontStyle must be either 'normal' or 'italic'",
                    <<>>))

\* x.toFixed(1) of a positive x, in tenths
toFixed1(x) ==
    IF x.e >= 0 THEN BNorm(BMulSmall(BShl(x.m, x.e), 10))
    ELSE BShr(BAdd(BNorm(BMulSmall(x.m, 20)), BShl(<<1>>, -x.e)), 1 - x.e)

\* The line-height warnings of an element whose fontSize and lineHeight, like
\* the baseline unit, are numbers (any other value makes the ratio NaN or is
\* falsy, and nothing is pushed)
elementWarnings(config, element, index) ==
    IF /\ Truthy(Get(element, "fontSize")) /\ Truthy(Get(element, "lineHeight"))
       /\ Truthy(Get(config, "baselineUnit"))
       /\ typeof(Get(element, "fontSize")) = "number"
       /\ typeof(Get(element, "lineHeight")) = "number"
       /\ typeof(Get(config, "baselineUnit")) = "number"
    THEN Let([lineHeightRem \in {FMul(toFloat(Get(element, "lineHeight")),
                                      toFloat(Get(config, "baselineUnit")))} |->
         Let([ratio \in {FDiv(lineHeightRem, toFloat(Get(element, "fontSize")))} |->
             IF FLt(ratio, FromInt(1))
             THEN <<Message(Indexed("elements", index), ": line-height is smaller than font-size",
                            <<lineHeightRem, toFloat(Get(element, "fontSize"))>>)>>
             ELSE When(FGt(ratio, FromInt(3)),
                       Message(Indexed("elements", index), ": line-height ratio is unusually large",
                               toFixed1(ratio)))])])
    ELSE <<>>

\* The elements part of validateConfig
elementsErrors(config) ==
    IF Truthy(Get(config, "elements"))
    THEN IF Get(config, "elements").t # "array" THEN <<Message("", "elements must be an array", <<>>)>>
         ELSE Flatten([k \in 1..Len(Get(config, "elements").vals) |->
                          elementErrors(config, Get(config, "elements").vals[k], k - 1)], 1)
    ELSE Flatten([k \in 1..3 |->
             Let([field \in {<<"fontSizes", "lineHeights", "spAfter">>[k]} |->
                 IF ~Truthy(Get(config, field))
                 THEN <<Message(field, " is required in legacy format", <<>>)>>
                 ELSE When(typeof(Get(config, field)) # "object",
                           Message(field, " must be an object", <<>>))])], 1)

elementsWarnings(config) ==
    IF Truthy(Get(config, "elements")) /\ Get(config, "elements").t = "array"
    THEN Flatten([k \in 1..Len(Get(config, "elements").vals) |->
                     elementWarnings(config, Get(config, "elements").vals[k], k - 1)], 1)
    ELSE <<>>

\* A property of null or undefined is read, or fontFiles.map is called on what
\* is no array
validateConfigThrows(config) ==
    \/ /\ Get(config, "fontFiles").t = "array"
       /\ \E k \in 1..Len(Get(config, "fontFiles").vals) :
              Get(config, "fontFiles").vals[k].t \in {"null", "undefined"}
    \/ /\ Get(config, "elements").t = "array"
       /\ \E k \in 1..Len(Get(config, "elements").vals) :
              \/ Get(config, "elements").vals[k].t \in {"null", "undefined"}
              \/ /\ Truthy(Get(config, "fontFiles")) /\ Get(config, "fontFiles").t # "array"
                 /\ Truthy(Get(Get(config, "elements").vals[k], "fontFamily"))

\* validateConfig(config, configPath); found holds the font paths, as the
\* configuration writes them, that fs.existsSync finds once resolved against
\* the directory of configPath
validateConfig(config, found) ==
    IF ~Truthy(config) \/ typeof(config) # "object"
    THEN Return([isValid |-> FALSE,
                 errors |-> <<Message("", "Configuration must be a valid JSON object", <<>>)>>,
                 warnings |-> <<>>])
    ELSE IF validateConfigThrows(config) THEN TypeError("Cannot read properties")
    ELSE Let([errors \in {
                (IF ~Truthy(Get(config, "baselineUnit"))
                 THEN <<Message("", "baselineUnit is required", <<>>)>>
                 ELSE When(\/ typeof(Get(config, "baselineUnit")) # "number"
                           \/ FSign(toFloat(Get(config, "baselineUnit"))) <= 0,
                           Message("", "baselineUnit must be a positive number", <<>>)))
                \o fontErrors(config, found)
                \o elementsErrors(config)
                \o When(Truthy(Get(config, "font")) /\ typeof(Get(config, "font")) # "string",
                        Message("", "font must be a string", <<>>))} |->
             Return([isValid |-> errors = <<>>,
                     errors |-> errors,
                     warnings |-> fontWarnings(config, found) \o elementsWarnings(config)])])

-----------------------------------------------------------------------------
(* The generator on the file system. The disk is a function from the paths of
   the files there are to what they hold; a path is a JS string, relative to
   the working directory unless it starts with "/". *)

\* What a file holds: a configuration as JSON text, text that is no JSON, a
\* font (<<the metrics readFontMetrics gives>>, <<>> for a font that cannot be
\* read), or what a script wrote
JsonFile(value) == [kind |-> "json", holds |-> value]

TextFile(text) == [kind |-> "text", holds |-> text]

FontOnDisk(metrics) == [kind |-> "font", holds |-> metrics]

Written(kind, value) == [kind |-> kind, holds |-> value]

\* fs.existsSync(path)
existsSync(files, path) == path \in DOMAIN files

\* fs.writeFileSync(path, content)
writeFileSync(files, path, content) ==
    [p \in DOMAIN files \cup {path} |-> IF p = path THEN content ELSE files[p]]

\* fs.unlink(path)
unlink(files, path) == [p \in DOMAIN files \ {path} |-> files[p]]

\* path.join(directory, name) for a name without "." and ".." parts
pathJoin(directory, name) ==
    IF name # <<>> /\ name[1] = "/" THEN directory \o name ELSE directory \o <<"/">> \o name

\* path.resolve(directory, name) for a relative directory
pathResolve(directory, name) ==
    IF name # <<>> /\ name[1] = "/" THEN name ELSE pathJoin(directory, name)

possibleExtensions == <<Chars(".woff2"), Chars(".woff"), Chars(".ttf"), Chars(".otf")>>

\* fontFileName.replace(/\.[^.]+$/, '')
withoutExtension(fontFileName) ==
    Let([dot \in {Max({0} \cup {i \in 1..Len(fontFileName) : fontFileName[i] = "."})} |->
        IF dot = 0 \/ dot = Len(fontFileName) THEN fontFileName
        ELSE SubSeq(fontFileName, 1, dot - 1)])

\* findFontFile(directory, fontFileName): <<the path found>>, <<>> for null
findFontFile(files, directory, fontFileName) ==
    IF existsSync(files, pathJoin(directory, fontFileName))
    THEN <<pathJoin(directory, fontFileName)>>
    ELSE Let([found \in {{k \in 1..Len(possibleExtensions) :
                 existsSync(files, pathJoin(directory, withoutExtension(fontFileName)
                                                       \o possibleExtensions[k]))}} |->
             IF found = {} THEN <<>>
             ELSE <<pathJoin(directory, withoutExtension(fontFileName)
                                        \o possibleExtensions[Min(found)])>>])

\* The hhea metrics generateFile reads from the font file the configuration
\* names: <<>> when the file is not found or cannot be read
fontReadBy(files, directory, fontFile) ==
    IF fontFile = "" THEN <<>>
    ELSE Let([found \in {findFontFile(files, directory, Chars(fontFile))} |->
             IF found = <<>> THEN <<>>
             ELSE IF files[found[1]].kind # "font" \/ files[found[1]].holds = <<>> THEN <<>>
             ELSE <<[files[found[1]].holds[1] EXCEPT !.fontName = "", !.fontWeight = 0]>>])

\* generateFile(inputPath, outputPath) on the disk: the generator's metrics, the
\* outcome and the disk afterwards
generateFileOn(fm, files, inputPath, outputPath) ==
    IF ~existsSync(files, inputPath)
    THEN [fontMetrics |-> fm, outcome |-> Throw("Error", "Input file not found"),
          files |-> files]
    ELSE IF files[inputPath].kind # "json"
    THEN [fontMetrics |-> fm, outcome |-> Throw("SyntaxError", "Unexpected token in JSON"),
          files |-> files]
    ELSE Let([done \in {generateFile(fm, files[inputPath].holds,
                                     fontReadBy(files, dirname(inputPath),
                                                files[inputPath].holds.fontFile))} |->
             [fontMetrics |-> done[1],
              outcome |-> done[2],
              files |-> IF done[2].kind = "return"
                        THEN writeFileSync(files, outputPath,
                                 Written("scss", generateScss(done[1], files[inputPath].holds).value))
                        ELSE files]])

\* A line on the console
Line(level, text, detail) == [level |-> level, text |-> text, detail |-> detail]

\* A change handler without the try: the error leaves the handler, ends the
\* process and with it the watcher
onChangeUncaught(fm, files, inputPath, outputPath) ==
    Let([done \in {generateFileOn(fm, files, inputPath, outputPath)} |->
        [fontMetrics |-> done.fontMetrics, files |-> done.files, outcome |-> done.outcome,
         reported |-> <<>>,
         watcher |-> IF done.outcome.kind = "throw" THEN "none" ELSE "ready"]])

\* The watcher's change handler: generateFile in a try, an error caught and
\* reported with console.error; the watcher stays as it is
onChange(fm, files, inputPath, outputPath) ==
    Let([done \in {generateFileOn(fm, files, inputPath, outputPath)} |->
        [fontMetrics |-> done.fontMetrics, files |-> done.files, outcome |-> done.outcome,
         reported |-> IF done.outcome.kind = "throw"
                      THEN <<Line("error", "Error regenerating:", done.outcome.message)>>
                      ELSE <<>>,
         watcher |-> "ready"]])

-----------------------------------------------------------------------------
(* Inputs of the nudge calculation *)

\* Font metrics: two real fonts' (Fira Sans, Inter), round ones, one with a line
\* gap, one whose descent exceeds its ascent (a negative baseline offset).
MetricsList ==
    << Metrics(1000, -200, 0, 1000), Metrics(1825, -443, 0, 2048),
       Metrics(935, -265, 0, 1000), Metrics(800, -200, 200, 1000),
       Metrics(100, -1900, 0, 1000), Metrics(1900, 500, 90, 2048) >>

\* Decimal literals <<p, q>> for p/q
FontSizeList == << <<1, 1>>, <<2, 1>>, <<5, 2>>, <<7, 8>>, <<3, 1>>, <<4, 1>>, <<3, 2>> >>

LineHeightList == << <<2, 1>>, <<3, 1>>, <<5, 2>>, <<1, 2>>, <<1, 1>>, <<4, 1>> >>

BaselineUnitList == << <<1, 2>>, <<1, 10>>, <<1, 40>>, <<1, 4>>, <<1, 20>>, <<3, 10>> >>

NumMetrics == 4

NumFontSizes == 4

NumLineHeights == 3

NumBaselineUnits == 5

\* Line gaps in font units, for metrics that differ in the line gap alone
LineGapList == <<0, 200, 90, 100, 410, 1>>

NumLineGaps == 4

-----------------------------------------------------------------------------
(* Inputs of the name resolution *)

PathList ==
    << "fonts/sample.ttf", "fonts/Inter-Bold.ttf", "Inter/-.ttf", "fonts/-.ttf", "fonts/1.ttf",
       "fonts/2-MyFont-webfont.ttf", "fonts/licensed-for-use-only-v2.ttf",
       "fonts/Inter-Regular.woff2", "My_Font/07-webfont.otf" >>

\* A name record with one language entry
Localized(lang, value) == JsObject(<<lang>>, <<JsString(Chars(value))>>)

\* Name tables as fontkit and opentype.js give them: absent, empty, with a valid
\* name, with rejected names only, with a name in another language and a plain
\* string, with malformed records, with a record in two languages, and a table
\* that is no object
NameTableList ==
    << JsNull,
       JsObject(<<"fontFamily">>, <<Localized("en", "Inter")>>),
       JsObject(<<"preferredFamily", "fontFamily">>,
                <<Localized("en", "Sample Text"), Localized("en", "ilovetypography.com")>>),
       JsObject(<<"preferredFamily", "fullName">>,
                <<Localized("de", "Fira Sans"), JsString(Chars("Fira Sans Regular"))>>),
       JsObject(<<"fontFamily", "fullName", "postScriptName">>,
                <<JsNumber(42), JsObject(<<"en">>, <<JsNumber(7)>>), JsObject(<<>>, <<>>)>>),
       JsObject(<<>>, <<>>),
       JsObject(<<"fullName">>, <<Localized("en", "For Use Only v2")>>),
       JsObject(<<"preferredFamily">>, <<Localized("en", "Inter")>>),
       JsObject(<<"preferredFamily", "fontFamily">>,
                <<JsObject(<<"de", "en">>, <<JsString(Chars("Inter Anzeige")),
                                             JsString(Chars("Inter Display"))>>),
                  Localized("en", "Inter")>>),
       JsString(Chars("Lato")) >>

\* opentype.js fonts: none (the load failed), with a valid name, without names,
\* with rejected names only
OtFontList ==
    << JsNull,
       JsObject(<<"names">>, <<JsObject(<<"fullName">>, <<Localized("en", "Fira Sans Bold Italic")>>)>>),
       JsObject(<<>>, <<>>),
       JsObject(<<"names">>, <<JsObject(<<"fontFamily">>, <<Localized("en", "Untitled 1")>>)>>) >>

NumPaths == 8

NumNameTables == 9

NumOtFonts == 3

\* Candidate names for cleanupFontName
CandidateList ==
    << "Inter Regular", "Inter Normal", "Inter Bold Regular", "Inter Bold Italic",
       "Foo (Bold Italic)", "Inter Bold Italic (v2)", "Lato Light Normal", "Questa Regular",
       "Inter Variable", "IBM Plex Sans Var", "Roboto - Regular", "MyFont-webfont",
       "Source Sans v2.1", "Noto Sans Bold Italic [wght]", "Sample Bold Italic",
       "Fira  Sans   Bold Italic 12", "Bold Italic", "Inter Black Normal", "Foo VF Variable",
       "Foo 1 2", "Regular", "Plex {Bold Italic" >>

NumCandidates == 20

-----------------------------------------------------------------------------
(* Inputs of fontkit-parser's extractFontName *)

\* A record of the name table
Entry(nameID, platformID, value) ==
    JsObject(<<"nameID", "platformID", "value">>,
             <<JsNumber(nameID), JsNumber(platformID), JsString(Chars(value))>>)

\* A font's tables: the name table (its names array), the WOFF metadata, the OS/2 table
Font(name, meta, os2) == JsObject(<<"name", "meta", "os2">>, <<name, meta, os2>>)

Names(entries) == JsObject(<<"names">>, <<JsArray(entries)>>)

FontList ==
    << Font(Names(<<Entry(16, 3, "Inter Display"), Entry(1, 1, "Inter")>>), Undefined, Undefined),
       Font(Names(<<Entry(1, 3, "Fira Sans"), Entry(4, 3, "Fira Sans Bold")>>), Undefined, Undefined),
       Font(Names(<<Entry(6, 1, "FiraSans-Bold"), Entry(16, 0, "Fira Sans")>>), Undefined, Undefined),
       Font(Names(<<Entry(1, 3, "  "), Entry(1, 1, "Lato")>>), Undefined, Undefined),
       Font(Undefined,
            JsString(Chars("<metadata><description><text lang=\"en\"> Work Sans </text></description></metadata>")),
            JsObject(<<"achVendID">>, <<JsString(Chars("ADBE"))>>)),
       Font(Undefined, Undefined, JsObject(<<"achVendID">>, <<JsString(Chars("ADBE"))>>)),
       Font(Undefined, Undefined, Undefined),
       Font(JsObject(<<"fontFamily">>, <<Localized("en", "IBM Plex Sans")>>), Undefined, Undefined),
       Font(Undefined,
            JsString(Chars("<metadata><description><text>For Use Only v2</text></description></metadata>")),
            JsObject(<<"achVendID">>, <<JsString(Chars("ADBE"))>>)),
       Font(Names(<<Entry(16, 1, "Roboto Mac"), Entry(16, 3, "Roboto"), Entry(4, 0, "")>>),
            Undefined, Undefined) >>

NumFonts == 9

-----------------------------------------------------------------------------
(* Inputs of the token assembler *)

Element(identifier, classname, tag, fontSize, lineHeight, spaceAfter, family, weight, style) ==
    [identifier |-> identifier, classname |-> classname, tag |-> tag, fontSize |-> fontSize,
     lineHeight |-> lineHeight, spaceAfter |-> spaceAfter, fontFamily |-> family,
     fontWeight |-> weight, fontStyle |-> style]

\* Elements; spaceAfter is a decimal literal when given
ElementList ==
    << Element("h1", ".h1", "h1", <<2, 1>>, <<5, 1>>, <<>>, "", 0, ""),
       Element("", ".lead text", "p", <<3, 2>>, <<3, 1>>, << <<2, 1>> >>, "serif", 700, "italic"),
       Element("", "", "p", <<1, 1>>, <<3, 1>>, <<>>, "constructor", 0, ""),
       Element("", "", "", <<1, 1>>, <<2, 1>>, << <<6, 1>> >>, "display", 0, ""),
       Element("h2", "", "h2", <<3, 2>>, <<4, 1>>, << <<0, 1>> >>, "sans", 400, "normal"),
       Element("caption", "", "", <<7, 8>>, <<5, 2>>, << <<3, 2>> >>, "", 300, ""),
       Element("h3", "", "h3", <<2, 1>>, <<5, 2>>, <<>>, "", 0, "") >>

Config(baselineUnit, elements, fontFile, fontFiles) ==
    [baselineUnit |-> baselineUnit, elements |-> elements, fontFile |-> fontFile,
     fontFiles |-> fontFiles]

FontFile(family, path) == [family |-> family, path |-> path]

\* Configurations: single-font ones (a fontFile or none) and multi-font ones
ConfigList ==
    << Config(<<1, 2>>, <<ElementList[1]>>, "Inter.ttf", <<>>),
       Config(<<1, 2>>, <<ElementList[1], ElementList[2]>>, "",
              << <<FontFile("sans", "Inter.ttf"), FontFile("serif", "Lora.ttf")>> >>),
       Config(<<1, 2>>, <<ElementList[1], ElementList[3]>>, "",
              << <<FontFile("sans", "Inter.ttf")>> >>),
       Config(<<1, 2>>, <<ElementList[2], ElementList[4]>>, "",
              << <<FontFile("sans", "Inter.ttf"), FontFile("serif", "Lora.ttf")>> >>),
       Config(<<1, 2>>, <<>>, "Inter.ttf", <<>>),
       Config(<<1, 4>>, <<ElementList[1], ElementList[2], ElementList[1]>>, "", <<>>),
       Config(<<1, 2>>, <<ElementList[5], ElementList[6]>>, "Inter.ttf",
              << <<FontFile("sans", "Inter.ttf")>> >>),
       Config(<<3, 10>>, <<ElementList[7]>>, "Inter.ttf",
              << <<FontFile("sans", "Inter.ttf")>> >>),
       Config(<<1, 4>>, <<ElementList[4], ElementList[1]>>, "Inter.ttf",
              << <<FontFile("display", "Inter.ttf")>> >>) >>

NumConfigs == 8

\* The metrics readFontMetrics gives, with the font's name and weight
Loaded(metrics, fontName, fontWeight) ==
    [ascent |-> metrics.ascent, descent |-> metrics.descent, lineGap |-> metrics.lineGap,
     unitsPerEm |-> metrics.unitsPerEm, fontName |-> fontName, fontWeight |-> fontWeight]

MetricsMap(keys, vals) == [keys |-> keys, vals |-> vals]

MetricsMapList ==
    << MetricsMap(<<"sans">>, <<Loaded(MetricsList[2], "Inter", 400)>>),
       MetricsMap(<<"sans", "serif">>,
                  <<Loaded(MetricsList[2], "Inter", 400), Loaded(MetricsList[3], "Lora", 0)>>),
       MetricsMap(<<"display", "sans", "serif">>,
                  <<Loaded(MetricsList[4], "", 700), Loaded(MetricsList[2], "Inter", 400),
                    Loaded(MetricsList[3], "Lora", 0)>>) >>

NumMetricsMaps == 2

-----------------------------------------------------------------------------
(* Inputs of the validation: what a configuration file may hold for an
   element's lineHeight and spaceAfter *)

LineHeightValueList ==
    << JsNumber(3), JsDecimal(3, 2), JsDecimal(5, 4), JsNumber(0), JsDecimal(-3, 2), Undefined,
       JsString(Chars("3")), JsDecimal(1, 2), JsNull, JsDecimal(1, 10), JsNumber(-1) >>

NumLineHeightValues == 9

SpaceAfterValueList ==
    << Undefined, JsNumber(4), JsNumber(0), JsDecimal(3, 2), JsDecimal(1, 4),
       JsString(Chars("2")), JsNumber(-2) >>

NumSpaceAfterValues == 5

\* A configuration in the format named, with an element of the line height and
\* space after given and a second element
ValidatedConfig(format, lineHeight, spaceAfter) ==
    JsObject(<<"baselineUnit", format, "elements">>,
             << JsDecimal(1, 2),
                IF format = "fontFiles"
                THEN JsArray(<<JsObject(<<"family", "path">>,
                                        <<JsString(Chars("sans")), JsString(Chars("Inter.ttf"))>>)>>)
                ELSE JsString(Chars("Inter.ttf")),
                JsArray(<< JsObject(<<"identifier", "fontSize", "lineHeight", "spaceAfter">>,
                                    <<JsString(Chars("h1")), JsNumber(2), lineHeight, spaceAfter>>),
                           JsObject(<<"classname", "fontSize", "lineHeight", "fontFamily",
                                      "fontWeight", "fontStyle">>,
                                    <<JsString(Chars(".lead")), JsDecimal(1, 4), JsNumber(5),
                                      JsString(Chars("sans")), JsNumber(700),
                                      JsString(Chars("italic"))>>) >>) >>)


-----------------------------------------------------------------------------
(* Inputs of the runs on the file system *)

\* The configuration file, the SCSS file generateFile writes and the font the
\* configurations name
InputPath == Chars("site/typography.json")

OutputPath == Chars("site/scss/_nudges.scss")

FontPath == Chars("site/Inter.ttf")

\* What an editor may leave in the configuration file
ContentList ==
    << JsonFile(ConfigList[1]), TextFile("{ \"baselineUnit\": "), JsonFile(ConfigList[5]),
       JsonFile(ConfigList[6]) >>

NumContents == 3


\* The directory generateFiles writes to
OutputDir == Chars("dist")

\* What the configuration file of a generateFiles run may hold: a single-font and
\* a multi-font configuration, one whose only family is "display", one that names
\* its font by an absolute path, one with an element that has no name, and text
\* that is no JSON
FileContentList ==
    << JsonFile(ConfigList[1]),
       JsonFile(ConfigList[2]),
       JsonFile(Config(<<1, 2>>, <<ElementList[1]>>, "", << <<FontFile("display", "Inter.ttf")>> >>)),
       JsonFile(Config(<<1, 2>>, <<ElementList[1]>>, "",
                       << <<FontFile("sans", "/fonts/Inter.ttf")>> >>)),
       JsonFile(ConfigList[3]),
       TextFile("{ \"baselineUnit\": "),
       JsonFile(ConfigList[7]) >>

NumFileContents == 6

\* The disk that holds contents[k] at paths[k]
Files(paths, contents) ==
    [p \in {paths[k] : k \in 1..Len(paths)} |->
        contents[CHOOSE k \in 1..Len(paths) : paths[k] = p]]

\* The font files there may be: none; the two the configurations name; the one
\* under another extension; one of the two not readable; the one at the
\* absolute path
FontDiskList ==
    << Files(<<>>, <<>>),
       Files(<<Chars("site/Inter.ttf"), Chars("site/Lora.ttf")>>,
             <<FontOnDisk(<<Loaded(MetricsList[2], "Inter", 400)>>),
               FontOnDisk(<<Loaded(MetricsList[3], "Lora", 0)>>)>>),
       Files(<<Chars("site/Inter.woff2")>>, <<FontOnDisk(<<Loaded(MetricsList[2], "Inter", 400)>>)>>),
       Files(<<Chars("site/Inter.ttf"), Chars("site/Lora.ttf")>>,
             <<FontOnDisk(<<Loaded(MetricsList[2], "Inter", 400)>>), FontOnDisk(<<>>)>>),
       Files(<<Chars("/fonts/Inter.ttf")>>, <<FontOnDisk(<<Loaded(MetricsList[2], "Inter", 400)>>)>>),
       Files(<<Chars("site/Inter.ttf")>>, <<FontOnDisk(<<>>)>>) >>

NumFontDisks == 5
-----------------------------------------------------------------------------
(* generateFiles on the file system: validation of the configuration file, the
   fonts it names, the tokens, the page and the files written *)

\* The object of the pairs <<key, <<value>>>>, a pair <<key, <<>>>> left out
Fields(pairs) ==
    Let([kept \in {SelectSeq(pairs, LAMBDA p : p[2] # <<>>)} |->
        JsObject([k \in 1..Len(kept) |-> kept[k][1]], [k \in 1..Len(kept) |-> kept[k][2][1]])])

\* A string property, absent when the configuration does not set it
StringField(key, text) == <<key, IF text = "" THEN <<>> ELSE <<JsString(Chars(text))>> >>

\* JSON.parse of an element of the configuration file
elementParsed(element) ==
    Fields(<< StringField("identifier", element.identifier),
              StringField("classname", element.classname),
              StringField("tag", element.tag),
              <<"fontSize", <<JsDecimal(element.fontSize[1], element.fontSize[2])>> >>,
              <<"lineHeight", <<JsDecimal(element.lineHeight[1], element.lineHeight[2])>> >>,
              <<"spaceAfter", IF element.spaceAfter = <<>> THEN <<>>
                              ELSE <<JsDecimal(element.spaceAfter[1][1], element.spaceAfter[1][2])>> >>,
              StringField("fontFamily", element.fontFamily),
              <<"fontWeight", IF element.fontWeight = 0 THEN <<>>
                              ELSE <<JsNumber(element.fontWeight)>> >>,
              StringField("fontStyle", element.fontStyle) >>)

\* JSON.parse of the configuration file: the value validateConfig is given
JSONparse(config) ==
    Fields(<< <<"baselineUnit", <<JsDecimal(config.baselineUnit[1], config.baselineUnit[2])>> >>,
              StringField("fontFile", config.fontFile),
              <<"fontFiles", IF config.fontFiles = <<>> THEN <<>>
                             ELSE <<JsArray([k \in 1..Len(config.fontFiles[1]) |->
                                       Fields(<<StringField("family", config.fontFiles[1][k].family),
                                                StringField("path", config.fontFiles[1][k].path)>>)])>> >>,
              <<"elements", <<JsArray([k \in 1..Len(config.elements) |->
                                          elementParsed(config.elements[k])])>> >> >>)

\* The font paths a configuration writes
fontPathsOf(config) ==
    (IF config.fontFile = "" THEN {} ELSE {Chars(config.fontFile)})
    \cup (IF config.fontFiles = <<>> THEN {}
          ELSE {Chars(config.fontFiles[1][k].path) : k \in 1..Len(config.fontFiles[1])})

\* fs.existsSync(path.resolve(path.dirname(configPath), fontFile.path)) for the
\* font paths of the configuration
fontsFound(files, configPath, config) ==
    {p \in fontPathsOf(config) : existsSync(files, pathResolve(dirname(configPath), p))}

\* validateConfigFile(configPath)
validateConfigFile(files, configPath) ==
    IF ~existsSync(files, configPath)
    THEN [isValid |-> FALSE,
          errors |-> <<Message("", "Configuration file not found: ", configPath)>>,
          warnings |-> <<>>]
    ELSE IF files[configPath].kind # "json"
    THEN [isValid |-> FALSE,
          errors |-> <<Message("", "Invalid JSON in configuration file: ", <<>>)>>,
          warnings |-> <<>>]
    ELSE Let([validation \in {validateConfig(JSONparse(files[configPath].holds),
                                             fontsFound(files, configPath,
                                                        files[configPath].holds))} |->
             IF validation.kind = "throw"
             THEN [isValid |-> FALSE,
                   errors |-> <<Message("", "Error reading configuration file: ", <<>>)>>,
                   warnings |-> <<>>]
             ELSE validation.value])

\* The characters of s from k on as one string
RECURSIVE stringFrom(_, _)
stringFrom(s, k) == IF k > Len(s) THEN "" ELSE s[k] \o stringFrom(s, k + 1)

\* extractFontName(metrics, fontPath) of the generator: the metrics have no
\* tables, so there is no name table, and the fonts of these runs are ones
\* opentype.js does not load; extractRobustFontName(fontPath, null, null) is
\* left with the path and the last resort
nameOfPath(fontPath) ==
    IF extractFontNameFromPath(fontPath) # JsNull
    THEN stringFrom(extractFontNameFromPath(fontPath).s, 1)
    ELSE stringFrom(absoluteFallback(fontPath).s, 1)

FontFileNotFound(fontFilePath) ==
    Throw("FontFileError", "Font file not found: " \o fontFilePath)

FailedToRead == Throw("FontMetricsError", "Failed to read font metrics")

\* One font file of generateFiles: findFontFile, readFontMetrics and
\* extractFontName; the entry stored in fontMetricsMap, or what is thrown
loadFont(files, inputDir, fontFilePath) ==
    Let([found \in {findFontFile(files, inputDir, Chars(fontFilePath))} |->
        IF found = <<>> THEN FontFileNotFound(fontFilePath)
        ELSE IF files[found[1]].kind # "font" \/ files[found[1]].holds = <<>> THEN FailedToRead
        ELSE Return([metrics |-> files[found[1]].holds[1],
                     entry |-> [files[found[1]].holds[1] EXCEPT
                                   !.fontName = nameOfPath(found[1])]])])

\* fontMetricsMap[family] = entry
put(map, family, entry) ==
    IF \E k \in 1..Len(map.keys) : map.keys[k] = family
    THEN MetricsMap(map.keys, [k \in 1..Len(map.keys) |->
                                  IF map.keys[k] = family THEN entry ELSE map.vals[k]])
    ELSE MetricsMap(Append(map.keys, family), Append(map.vals, entry))

\* for (const fontFile of config.fontFiles), from the k-th font file on
RECURSIVE loadFontFiles(_, _, _, _, _)
loadFontFiles(files, inputDir, fontFiles, k, map) ==
    IF k > Len(fontFiles) THEN Return(map)
    ELSE Let([loaded \in {loadFont(files, inputDir, fontFiles[k].path)} |->
             IF loaded.kind = "throw" THEN loaded
             ELSE loadFontFiles(files, inputDir, fontFiles, k + 1,
                                put(map, fontFiles[k].family, loaded.value.entry))])

\* fontMetricsMap[fontFamily].path
pathOfFamily(config, family) ==
    IF config.fontFiles = <<>> THEN config.fontFile
    ELSE config.fontFiles[1][Max({k \in 1..Len(config.fontFiles[1]) :
                                     config.fontFiles[1][k].family = family})].path

\* for (const fontFamily in fontMetricsMap): the font files copied, from key k on
RECURSIVE copyFonts(_, _, _, _, _, _)
copyFonts(files, inputPath, fontDistDir, config, keys, k) ==
    IF k > Len(keys) THEN files
    ELSE Let([fontSrcPath \in {pathResolve(dirname(inputPath),
                                           Chars(pathOfFamily(config, keys[k])))} |->
             copyFonts(IF existsSync(files, fontSrcPath)
                       THEN writeFileSync(files, pathJoin(fontDistDir, basename(fontSrcPath)),
                                          files[fontSrcPath])
                       ELSE files,
                       inputPath, fontDistDir, config, keys, k + 1)])

\* What a call of generateFiles leaves: the generator's metrics, the outcome,
\* the disk and the lines on the console
Left(fm, outcome, files, lines) ==
    [fontMetrics |-> fm, outcome |-> outcome, files |-> files, reported |-> lines]

\* generateFiles from generateTokens on, with the fonts loaded
writeFiles(fm, files, inputPath, outputDir, fontMetricsMap, lines) ==
    Let([config \in {files[inputPath].holds} |->
    Let([tokens \in {generateTokens(fm, config, <<fontMetricsMap>>)} |->
        IF tokens.kind = "throw" THEN Left(fm, tokens, files, lines)
        ELSE Let([html \in {generateHTML(tokens.value, <<fontMetricsMap>>)} |->
                 IF html.kind = "throw" THEN Left(fm, html, files, lines)
                 ELSE Left(fm,
                           Return([tokens |-> tokens.value,
                                   tokensPath |-> pathJoin(outputDir, Chars("tokens.json")),
                                   htmlPath |-> pathJoin(outputDir, Chars("index.html"))]),
                           copyFonts(writeFileSync(
                                         writeFileSync(files,
                                                       pathJoin(outputDir, Chars("tokens.json")),
                                                       Written("tokens", tokens.value)),
                                         pathJoin(outputDir, Chars("index.html")),
                                         Written("html", html.value)),
                                     inputPath, pathJoin(outputDir, Chars("fonts")), config,
                                     fontMetricsMap.keys, 1),
                           lines \o <<Line("log", "Generated tokens:", "tokens.json"),
                                      Line("log", "Generated HTML example:", "index.html")>>)])])])

ValidationFailed == Throw("ConfigurationError", "Configuration validation failed")

\* generateFiles(inputPath, outputDir) of a generator whose fontMetrics is fm
generateFiles(fm, files, inputPath, outputDir) ==
    Let([validation \in {validateConfigFile(files, inputPath)} |->
        IF ~validation.isValid THEN Left(fm, ValidationFailed, files, <<>>)
        ELSE Let([lines \in {IF validation.warnings = <<>> THEN <<>>
                             ELSE <<Line("warn", "Configuration warnings:", "")>>
                                  \o [k \in 1..Len(validation.warnings) |->
                                         Line("warn", "", validation.warnings[k].text)]} |->
        IF files[inputPath].holds.fontFiles # <<>>
        THEN Let([loaded \in {loadFontFiles(files, dirname(inputPath),
                                            files[inputPath].holds.fontFiles[1], 1,
                                            MetricsMap(<<>>, <<>>))} |->
                 IF loaded.kind = "throw" THEN Left(fm, loaded, files, lines)
                 ELSE writeFiles(fm, files, inputPath, outputDir, loaded.value, lines)])
        ELSE IF files[inputPath].holds.fontFile # ""
        THEN Let([loaded \in {loadFont(files, dirname(inputPath),
                                       files[inputPath].holds.fontFile)} |->
                 IF loaded.kind = "throw" THEN Left(fm, loaded, files, lines)
                 ELSE writeFiles(loaded.value.metrics, files, inputPath, outputDir,
                                 MetricsMap(<<"default">>, <<loaded.value.entry>>), lines)])
        ELSE Left(fm, Throw("ConfigurationError",
                            "Either fontFile (legacy) or fontFiles (new format) is required."),
                  files, lines)])])

-----------------------------------------------------------------------------
(* scripts/setup.js: the font download and the sample configuration *)

\* path.join('fonts', FONT_FILENAME)
FontDestination == Chars("fonts/FiraSans-Regular.ttf")

\* path.join('config', 'typography-config.json')
ConfigDestination == Chars("config/typography-config.json")

\* The font FONT_URL serves
FiraSansRegular == FontOnDisk(<<Loaded(MetricsList[1], "Fira Sans", 400)>>)

\* What fs.createWriteStream leaves at its path once the file is open: a file
\* with nothing in it
OpenedFile == FontOnDisk(<<>>)

SetupElement(identifier, fontSize, lineHeight, spaceAfter) ==
    Element(identifier, "", "", fontSize, lineHeight, <<spaceAfter>>, "", 0, "")

createTypographyConfig(fontFilename) ==
    Config(<<1, 2>>,
           << SetupElement("h1", <<5, 2>>, <<5, 1>>, <<4, 1>>),
              SetupElement("h2", <<2, 1>>, <<4, 1>>, <<4, 1>>),
              SetupElement("h3", <<3, 2>>, <<3, 1>>, <<4, 1>>),
              SetupElement("h4", <<5, 4>>, <<3, 1>>, <<4, 1>>),
              SetupElement("h5", <<9, 8>>, <<3, 1>>, <<4, 1>>),
              SetupElement("h6", <<1, 1>>, <<2, 1>>, <<4, 1>>),
              SetupElement("p", <<1, 1>>, <<3, 1>>, <<3, 1>>) >>,
           fontFilename, <<>>)

\* setup from "Create typography config" on: the configuration is written
\* unless there is one
writeConfig(files) ==
    IF existsSync(files, ConfigDestination)
    THEN [files |-> files,
          reported |-> <<Line("log", "Config already exists:", "config/typography-config.json"),
                         Line("log", "Setup complete! You can now run:", "")>>]
    ELSE [files |-> writeFileSync(files, ConfigDestination,
                        JsonFile(createTypographyConfig("../fonts/FiraSans-Regular.ttf"))),
          reported |-> <<Line("log", "Config created:", "config/typography-config.json"),
                         Line("log", "Setup complete! You can now run:", "")>>]

\* The write stream's 'finish': what was piped is in the file the stream
\* opened, if that file is still at its path
finished(files) ==
    IF existsSync(files, FontDestination)
    THEN writeFileSync(files, FontDestination, FiraSansRegular)
    ELSE files

-----------------------------------------------------------------------------
VARIABLES
    fontMetrics,     \* the generator's fontMetrics field: Null or metrics
    nudgeArgs,       \* the arguments of the calculateNudgeRem call, as literals
    nudgeRet,        \* the call's outcome, Null before it is made
    fontPath,        \* the path of the font file
    nameTable,       \* the name table fontkit gives
    otFont,          \* the font opentype.js gives, null when it gives none
    pc,              \* where extractRobustFontName stands
    consulted,       \* the sources extractRobustFontName has asked, in order
    result,          \* what extractRobustFontName returns, Null before it does
    candidate,       \* a candidate name
    cleaned,         \* cleanupFontName(candidate), Null before the call
    pathName,        \* extractFontNameFromPath of a file named candidate
    tableName,       \* extractFontNameFromNameTable of a table holding candidate
    font,            \* the font fontkit gives
    fontName,        \* the outcome of fontkit-parser's extractFontName
    config,          \* the configuration
    fontMetricsMap,  \* <<the metrics by family>>, <<>> when there is none
    fontOnDisk,      \* <<the metrics of the configuration's font file>>, <<>> when not found
    call,            \* the generator operation called
    outcome,         \* its outcome, Null before the call
    parser,          \* the generator's parser field
    history,         \* the calls made on the generator in a session, oldest first
    disk,            \* the files there are, by path
    console,         \* the lines written to the console, oldest first
    watcher,         \* the file watcher: "none" or "ready"
    events,          \* the change events the watcher has emitted and those handled
    proc,            \* where the running script stands
    pending          \* the file operations handed to the thread pool and not yet done

vars ==
    <<fontMetrics, nudgeArgs, nudgeRet, fontPath, nameTable, otFont, pc, consulted, result,
      candidate, cleaned, pathName, tableName, font, fontName, config, fontMetricsMap,
      fontOnDisk, call, outcome, parser, history,
      disk, console, watcher, events, proc, pending>>

nudgeVars == <<nudgeArgs, nudgeRet>>

nameVars == <<nameTable, pc, consulted, result>>

cleanupVars == <<candidate, cleaned, pathName, tableName>>

fontkitVars == <<font, fontName>>

tokenVars == <<config, fontMetricsMap, fontOnDisk, call, outcome>>

sessionVars == <<parser, history>>

systemVars == <<disk, console, watcher, events, proc, pending>>

\* The parts of the state a run does not use
NoNudge == nudgeArgs = Null /\ nudgeRet = Null

NoName == nameTable = JsNull /\ pc = "none" /\ consulted = <<>> /\ result = Null

NoFile == fontPath = <<>> /\ otFont = JsNull

NoCleanup == candidate = "" /\ cleaned = Null /\ pathName = Null /\ tableName = Null

NoFontkit == font = Undefined /\ fontName = Null

NoSession == parser = "" /\ history = <<>>

NoSystem ==
    /\ disk = <<>> /\ console = <<>> /\ watcher = "none"
    /\ events = [emitted |-> 0, handled |-> 0] /\ proc = "" /\ pending = {}

NoTokens ==
    /\ config = Null /\ fontMetricsMap = <<>> /\ fontOnDisk = <<>>
    /\ call = "" /\ outcome = Null

-----------------------------------------------------------------------------
(* calculateNudgeRem on a generator *)

\* A generator is constructed with metrics or without; a call is about to be made.
NudgeInit ==
    /\ fontMetrics \in {Null} \cup {MetricsList[i] : i \in 1..NumMetrics}
    /\ nudgeArgs \in [fontSizeRem : {FontSizeList[i] : i \in 1..NumFontSizes},
                      lineHeightRem : {LineHeightList[i] : i \in 1..NumLineHeights},
                      baselineUnitRem : {BaselineUnitList[i] : i \in 1..NumBaselineUnits}]
    /\ nudgeRet = Null
    /\ NoName /\ NoFile /\ NoCleanup /\ NoFontkit /\ NoTokens /\ NoSession /\ NoSystem

CalculateNudgeRem ==
    /\ nudgeArgs # Null
    /\ nudgeRet = Null
    /\ nudgeRet' = Let([fontSizeRem \in {Lit(nudgeArgs.fontSizeRem)} |->
                   Let([lineHeightRem \in {Lit(nudgeArgs.lineHeightRem)} |->
                   Let([baselineUnitRem \in {Lit(nudgeArgs.baselineUnitRem)} |->
                       calculateNudgeRem(fontMetrics, fontSizeRem, lineHeightRem,
                                         baselineUnitRem)])])])
    /\ UNCHANGED <<fontMetrics, nudgeArgs, fontPath, otFont>>
    /\ UNCHANGED <<nameVars, cleanupVars, fontkitVars, tokenVars, sessionVars, systemVars>>

NudgeNext == CalculateNudgeRem

SpecNudge == NudgeInit /\ [][NudgeNext]_vars

-----------------------------------------------------------------------------
(* extractRobustFontName(fontPath, nameTable, otFont), source by source *)

NameInit ==
    /\ fontPath \in {Chars(PathList[i]) : i \in 1..NumPaths}
    /\ nameTable \in {NameTableList[i] : i \in 1..NumNameTables}
    /\ otFont \in {OtFontList[i] : i \in 1..NumOtFonts}
    /\ pc = "nameTable"
    /\ consulted = <<>>
    /\ result = Null
    /\ fontMetrics = Null
    /\ NoNudge /\ NoCleanup /\ NoFontkit /\ NoTokens /\ NoSession /\ NoSystem

\* A source is asked and says name, and the sources from next on are asked as well
ConsultAndGoOn(source, name, next) ==
    /\ consulted' = Append(consulted, source)
    /\ result' = IF Truthy(name) THEN Return(name) ELSE result
    /\ pc' = next

\* A source is asked and says name, while the sources from next on remain:
\* if (name) return name
Consult(source, name, next) ==
    /\ consulted' = Append(consulted, source)
    /\ result' = IF Truthy(name) THEN Return(name) ELSE result
    /\ pc' = IF Truthy(name) THEN "done" ELSE next

\* A source that is not given is passed over
PassOver(next) == consulted' = consulted /\ result' = result /\ pc' = next

nameFrame ==
    /\ UNCHANGED <<fontMetrics, fontPath, nameTable, otFont>>
    /\ UNCHANGED <<nudgeVars, cleanupVars, fontkitVars, tokenVars, sessionVars, systemVars>>

TryNameTable ==
    /\ pc = "nameTable"
    /\ IF Truthy(nameTable)
       THEN Consult("nameTable", extractFontNameFromNameTable(nameTable), "otFont")
       ELSE PassOver("otFont")
    /\ nameFrame

TryOpenType ==
    /\ pc = "otFont"
    /\ IF Truthy(otFont)
       THEN Consult("otFont", extractFontNameFromOpenType(otFont), "path")
       ELSE PassOver("path")
    /\ nameFrame

TryPath ==
    /\ pc = "path"
    /\ Consult("path", extractFontNameFromPath(fontPath), "fallback")
    /\ nameFrame

\* The last resort is returned whatever it is
Fallback ==
    /\ pc = "fallback"
    /\ consulted' = Append(consulted, "fallback")
    /\ result' = Return(absoluteFallback(fontPath))
    /\ pc' = "done"
    /\ nameFrame

NameNext == TryNameTable \/ TryOpenType \/ TryPath \/ Fallback

SpecName == NameInit /\ [][NameNext]_vars

-----------------------------------------------------------------------------
(* cleanupFontName and the extractions that call it, on a candidate name *)

CleanupInit ==
    /\ candidate \in {CandidateList[i] : i \in 1..NumCandidates}
    /\ cleaned = Null
    /\ pathName = Null
    /\ tableName = Null
    /\ fontMetrics = Null
    /\ NoNudge /\ NoName /\ NoFile /\ NoFontkit /\ NoTokens /\ NoSession /\ NoSystem

cleanupFrame ==
    /\ UNCHANGED <<fontMetrics, fontPath, otFont, candidate>>
    /\ UNCHANGED <<nudgeVars, nameVars, fontkitVars, tokenVars, sessionVars, systemVars>>

CleanupFontName ==
    /\ candidate # ""
    /\ cleaned = Null
    /\ cleaned' = JsString(cleanupFontName(Chars(candidate)))
    /\ UNCHANGED <<pathName, tableName>>
    /\ cleanupFrame

\* The candidate as the name of a font file in a directory named fonts
ExtractFromPath ==
    /\ candidate # ""
    /\ pathName = Null
    /\ pathName' = extractFontNameFromPath(Chars("fonts/" \o candidate \o ".ttf"))
    /\ UNCHANGED <<cleaned, tableName>>
    /\ cleanupFrame

\* The candidate as the English family name of a name table
ExtractFromNameTable ==
    /\ candidate # ""
    /\ tableName = Null
    /\ tableName' = extractFontNameFromNameTable(
                        JsObject(<<"fontFamily">>, <<Localized("en", candidate)>>))
    /\ UNCHANGED <<cleaned, pathName>>
    /\ cleanupFrame

CleanupNext == CleanupFontName \/ ExtractFromPath \/ ExtractFromNameTable

SpecCleanup == CleanupInit /\ [][CleanupNext]_vars

-----------------------------------------------------------------------------
(* fontkit-parser's extractFontName on a font *)

FontkitInit ==
    /\ font \in {FontList[i] : i \in 1..NumFonts}
    /\ fontPath \in {Chars(PathList[i]) : i \in 1..NumPaths}
    /\ otFont \in {OtFontList[i] : i \in 1..NumOtFonts}
    /\ fontName = Null
    /\ fontMetrics = Null
    /\ NoNudge /\ NoName /\ NoCleanup /\ NoTokens /\ NoSession /\ NoSystem

ExtractFontName ==
    /\ font # Undefined
    /\ fontName = Null
    /\ fontName' = extractFontName(font, fontPath, otFont)
    /\ UNCHANGED <<fontMetrics, fontPath, otFont, font>>
    /\ UNCHANGED <<nudgeVars, nameVars, cleanupVars, tokenVars, sessionVars, systemVars>>

FontkitNext == ExtractFontName

SpecFontkit == FontkitInit /\ [][FontkitNext]_vars

-----------------------------------------------------------------------------
(* The generator's operations on a configuration *)

TokensInit ==
    /\ fontMetrics \in {Null, Loaded(MetricsList[2], "Inter", 400)}
    /\ config \in {ConfigList[i] : i \in 1..NumConfigs}
    /\ fontMetricsMap \in {<<>>} \cup {<<MetricsMapList[i]>> : i \in 1..NumMetricsMaps}
    /\ fontOnDisk \in {<<>>, <<Loaded(MetricsList[1], "", 0)>>}
    /\ call = ""
    /\ outcome = Null
    /\ NoNudge /\ NoName /\ NoFile /\ NoCleanup /\ NoFontkit /\ NoSession /\ NoSystem

\* An operation is called once and leaves its outcome
Called(name, value) ==
    /\ config # Null
    /\ call = ""
    /\ call' = name
    /\ outcome' = value
    /\ UNCHANGED <<fontMetrics, fontPath, otFont, config, fontMetricsMap, fontOnDisk>>
    /\ UNCHANGED <<nudgeVars, nameVars, cleanupVars, fontkitVars, sessionVars, systemVars>>

\* generator.calculateNudgeRem for an element of the configuration
CalculateElementNudge ==
    \E k \in 1..Len(config.elements) :
        Called("calculateNudgeRem",
               calculateNudgeRem(fontMetrics, Lit(config.elements[k].fontSize),
                                 Lit(config.elements[k].lineHeight), Lit(config.baselineUnit)))

GenerateTokens == Called("generateTokens", generateTokens(fontMetrics, config, fontMetricsMap))

GenerateNudges == Called("generateNudges", generateNudges(fontMetrics, config))

GenerateScss == Called("generateScss", generateScss(fontMetrics, config))

\* index.js: generateTokens(config) on a generator of its own
IndexGenerateTokens == Called("index.generateTokens", indexGenerateTokens(config, fontOnDisk))

\* generateFiles: the page for the tokens generateTokens has returned
GenerateHTML ==
    /\ config # Null
    /\ \E tokens \in {generateTokens(fontMetrics, config, fontMetricsMap)} :
           /\ tokens.kind = "return"
           /\ Called("generateHTML", generateHTML(tokens.value, fontMetricsMap))

TokensNext ==
    \/ CalculateElementNudge
    \/ GenerateTokens
    \/ GenerateNudges
    \/ GenerateScss
    \/ IndexGenerateTokens
    \/ GenerateHTML

SpecTokens == TokensInit /\ [][TokensNext]_vars


-----------------------------------------------------------------------------
(* A session of calls on one generator *)

\* The calls a session makes
MaxCalls == 3

\* A generator is constructed with metrics or without, for the default parser
SessionInit ==
    /\ fontMetrics \in {Null, Loaded(MetricsList[2], "Inter", 400)}
    /\ parser = "fontkit"
    /\ nudgeArgs \in [fontSizeRem : {FontSizeList[2], FontSizeList[3]},
                      lineHeightRem : {LineHeightList[2]},
                      baselineUnitRem : {BaselineUnitList[1]}]
    /\ nudgeRet = Null
    /\ config = ConfigList[1]
    /\ fontMetricsMap = <<>>
    /\ fontOnDisk = <<Loaded(MetricsList[1], "", 0)>>
    /\ call = ""
    /\ outcome = Null
    /\ history = <<>>
    /\ NoName /\ NoFile /\ NoCleanup /\ NoFontkit /\ NoSystem

\* A call is made and logged with the generator's fields before and after it
Logged(name, args, value, after) ==
    /\ call' = name
    /\ outcome' = value
    /\ fontMetrics' = after[1]
    /\ parser' = after[2]
    /\ history' = Append(history, [name |-> name, args |-> args, value |-> value,
                                   before |-> <<fontMetrics, parser>>, after |-> after])
    /\ UNCHANGED <<nudgeArgs, config, fontMetricsMap, fontOnDisk, fontPath, otFont>>
    /\ UNCHANGED <<nameVars, cleanupVars, fontkitVars, systemVars>>

\* calculateNudgeRem keeping its last result in the generator and returning it
\* again
calculateNudgeRemCached(fm, args) ==
    IF nudgeRet # Null THEN nudgeRet
    ELSE calculateNudgeRem(fm, Lit(args.fontSizeRem), Lit(args.lineHeightRem),
                           Lit(args.baselineUnitRem))

calculateNudgeRemOf(fm, args) ==
    calculateNudgeRem(fm, Lit(args.fontSizeRem), Lit(args.lineHeightRem),
                      Lit(args.baselineUnitRem))

\* generator.calculateNudgeRem(fontSizeRem, lineHeightRem, baselineUnitRem): it
\* assigns no field of the generator
SessionCalculate ==
    /\ Len(history) < MaxCalls
    /\ \E value \in {calculateNudgeRemOf(fontMetrics, nudgeArgs)} :
           /\ Logged("calculateNudgeRem", nudgeArgs, value, <<fontMetrics, parser>>)
           /\ nudgeRet' = value

\* generator.calculateNudgeRem with the first element's sizes
SessionCalculateElement ==
    /\ Len(history) < MaxCalls
    /\ Len(config.elements) > 0
    /\ \E args \in {[fontSizeRem |-> config.elements[1].fontSize,
                     lineHeightRem |-> config.elements[1].lineHeight,
                     baselineUnitRem |-> config.baselineUnit]} :
       \E value \in {calculateNudgeRemOf(fontMetrics, args)} :
           Logged("calculateNudgeRem", args, value, <<fontMetrics, parser>>)
    /\ UNCHANGED nudgeRet

SessionGenerateNudges ==
    /\ Len(history) < MaxCalls
    /\ \E value \in {generateNudges(fontMetrics, config)} :
           Logged("generateNudges", config, value, <<fontMetrics, parser>>)
    /\ UNCHANGED nudgeRet

SessionGenerateFile ==
    /\ Len(history) < MaxCalls
    /\ \E done \in {generateFile(fontMetrics, config, fontOnDisk)} :
           Logged("generateFile", config, done[2], <<done[1], parser>>)
    /\ UNCHANGED nudgeRet

SessionNext ==
    \/ SessionCalculate
    \/ SessionCalculateElement
    \/ SessionGenerateNudges
    \/ SessionGenerateFile

SpecSession == SessionInit /\ [][SessionNext]_vars

-----------------------------------------------------------------------------
(* validateConfig on a configuration read from a file *)

ValidateInit ==
    /\ config \in {ValidatedConfig(format, LineHeightValueList[i], SpaceAfterValueList[j]) :
                      format \in {"fontFiles", "fontFile"},
                      i \in 1..NumLineHeightValues, j \in 1..NumSpaceAfterValues}
    /\ fontOnDisk \in {<<>>, <<Loaded(MetricsList[1], "", 0)>>}
    /\ fontMetricsMap = <<>>
    /\ fontMetrics = Null
    /\ call = ""
    /\ outcome = Null
    /\ NoNudge /\ NoName /\ NoFile /\ NoCleanup /\ NoFontkit /\ NoSession /\ NoSystem

\* validateConfig(config, configPath); the font files exist when the font is on
\* the disk
ValidateConfig ==
    Called("validateConfig",
           validateConfig(config, IF fontOnDisk # <<>> THEN {Chars("Inter.ttf")} ELSE {}))

ValidateNext == ValidateConfig

SpecValidate == ValidateInit /\ [][ValidateNext]_vars


-----------------------------------------------------------------------------
(* watch(inputPath, outputPath): the first generation, then one on every change
   event of the configuration file *)

\* The change events of a run
MaxEvents == 3

\* The configuration file holds something; the font is on the disk or not; the
\* generator is constructed with metrics or without
WatchInit ==
    /\ fontMetrics \in {Null, Loaded(MetricsList[2], "Inter", 400)}
    /\ parser = "fontkit"
    /\ \E i \in 1..NumContents, fonts \in SUBSET {FontPath} :
           disk = [p \in {InputPath} \cup fonts |->
                      IF p = InputPath THEN ContentList[i]
                      ELSE FontOnDisk(<<Loaded(MetricsList[1], "Fira Sans", 400)>>)]
    /\ console = <<>>
    /\ watcher = "none"
    /\ events = [emitted |-> 0, handled |-> 0]
    /\ proc = "start"
    /\ pending = {}
    /\ history = <<>>
    /\ NoNudge /\ NoName /\ NoFile /\ NoCleanup /\ NoFontkit /\ NoTokens

watchFrame ==
    /\ UNCHANGED <<parser, fontPath, otFont, pending>>
    /\ UNCHANGED <<nudgeVars, nameVars, cleanupVars, fontkitVars, tokenVars>>

\* A generateFile call on the generator, with its outcome
Generated(done) == [name |-> "generateFile", kind |-> done.outcome.kind]

\* watch: generateFile, whose error leaves watch before the watcher is made;
\* then the watcher is made and the handler registered
Watch ==
    /\ proc = "start"
    /\ \E done \in {generateFileOn(fontMetrics, disk, InputPath, OutputPath)} :
           /\ fontMetrics' = done.fontMetrics
           /\ disk' = done.files
           /\ history' = Append(history, Generated(done))
           /\ watcher' = IF done.outcome.kind = "throw" THEN "none" ELSE "ready"
           /\ proc' = IF done.outcome.kind = "throw" THEN "thrown" ELSE "watching"
    /\ UNCHANGED <<console, events>>
    /\ watchFrame

\* An editor saves the configuration file; a watcher that is ready emits a
\* change event
Save ==
    /\ proc = "watching"
    /\ events.emitted < MaxEvents
    /\ \E i \in 1..NumContents : disk' = writeFileSync(disk, InputPath, ContentList[i])
    /\ events' = IF watcher = "ready" THEN [events EXCEPT !.emitted = @ + 1] ELSE events
    /\ UNCHANGED <<fontMetrics, console, watcher, proc, history>>
    /\ watchFrame

\* The handler runs for a change event
Change ==
    /\ watcher = "ready"
    /\ events.handled < events.emitted
    /\ \E done \in {onChange(fontMetrics, disk, InputPath, OutputPath)} :
           /\ fontMetrics' = done.fontMetrics
           /\ disk' = done.files
           /\ history' = Append(history, Generated(done))
           /\ console' = console \o done.reported
           /\ watcher' = done.watcher
    /\ events' = [events EXCEPT !.handled = @ + 1]
    /\ UNCHANGED proc
    /\ watchFrame

WatchNext == Watch \/ Save \/ Change

\* A change event was emitted and its listener has not run yet: the guard of Change
ChangePending == watcher = "ready" /\ events.handled < events.emitted

\* The event loop runs the listener of every emitted event: weak fairness of
\* Change, WF_vars(Change), with the guard of Change written out for
\* ENABLED <<Change>>_vars and the step of Change named by the counter it moves
ChangeHandled ==
    \/ []<>(~ChangePending)
    \/ []<><<events'.handled = events.handled + 1>>_vars

SpecWatch == WatchInit /\ [][WatchNext]_vars /\ ChangeHandled

-----------------------------------------------------------------------------
(* generateFiles on a disk: the configuration file and the font files are as an
   author left them, generateFiles runs, the author edits the configuration and
   generateFiles runs again *)

\* The runs of generateFiles and the edits between them
MaxRuns == 2

MaxEdits == 1

FilesInit ==
    /\ fontMetrics = Null
    /\ parser = "fontkit"
    /\ \E i \in 1..NumFileContents, j \in 1..NumFontDisks :
           disk = writeFileSync(FontDiskList[j], InputPath, FileContentList[i])
    /\ console = <<>>
    /\ watcher = "none"
    /\ events = [emitted |-> 0, handled |-> 0]
    /\ proc = "idle"
    /\ pending = {}
    /\ history = <<>>
    /\ call = ""
    /\ outcome = Null
    /\ config = Null /\ fontMetricsMap = <<>> /\ fontOnDisk = <<>>
    /\ NoNudge /\ NoName /\ NoFile /\ NoCleanup /\ NoFontkit

filesFrame ==
    /\ UNCHANGED <<parser, fontPath, otFont, config, fontMetricsMap, fontOnDisk, watcher,
                   pending>>
    /\ UNCHANGED <<nudgeVars, nameVars, cleanupVars, fontkitVars>>

\* generateFiles(inputPath, outputDir)
GenerateFiles ==
    /\ Len(history) < MaxRuns
    /\ \E done \in {generateFiles(fontMetrics, disk, InputPath, OutputDir)} :
           /\ fontMetrics' = done.fontMetrics
           /\ disk' = done.files
           /\ console' = console \o done.reported
           /\ outcome' = done.outcome
           /\ history' = Append(history, [name |-> "generateFiles", kind |-> done.outcome.kind])
           /\ proc' = IF done.outcome.kind = "throw" THEN "thrown" ELSE "returned"
    /\ call' = "generateFiles"
    /\ UNCHANGED events
    /\ filesFrame

\* The author saves the configuration file
Edit ==
    /\ events.emitted < MaxEdits
    /\ \E i \in 1..NumFileContents : disk' = writeFileSync(disk, InputPath, FileContentList[i])
    /\ events' = [events EXCEPT !.emitted = @ + 1]
    /\ proc' = "idle"
    /\ UNCHANGED <<fontMetrics, console, history, call, outcome>>
    /\ filesFrame

FilesNext == GenerateFiles \/ Edit

SpecFiles == FilesInit /\ [][FilesNext]_vars

-----------------------------------------------------------------------------
(* scripts/setup.js, run after run: the write stream's open and the unlink of
   a redirect are done by the thread pool, in any order, while the request
   waits for its response *)

\* The runs of setup and the redirects answered
MaxSetups == 2

MaxRedirects == 1

\* The author may have a font and a configuration at the places setup uses
SetupInit ==
    /\ \E own \in SUBSET {FontDestination, ConfigDestination} :
           disk = [p \in own |-> IF p = FontDestination
                                 THEN FontOnDisk(<<Loaded(MetricsList[2], "Inter", 400)>>)
                                 ELSE JsonFile(ConfigList[1])]
    /\ console = <<>>
    /\ watcher = "none"
    /\ events = [emitted |-> 0, handled |-> 0]
    /\ proc = "idle"
    /\ pending = {}
    /\ parser = ""
    /\ history = <<>>
    /\ fontMetrics = Null
    /\ NoNudge /\ NoName /\ NoFile /\ NoCleanup /\ NoFontkit /\ NoTokens

setupFrame ==
    /\ UNCHANGED <<fontMetrics, parser, fontPath, otFont, watcher>>
    /\ UNCHANGED <<nudgeVars, nameVars, cleanupVars, fontkitVars, tokenVars>>

\* A run of setup that has ended
Ended(kind) == [name |-> "setup", kind |-> kind]

\* setup(): with the font there, through to the end; else up to the await, the
\* write stream created and the request sent
Setup ==
    /\ proc \in {"idle", "done", "failed"}
    /\ pending = {}
    /\ Len(history) < MaxSetups
    /\ IF existsSync(disk, FontDestination)
       THEN \E done \in {writeConfig(disk)} :
                /\ disk' = done.files
                /\ console' = console
                              \o <<Line("log", "Setting up baseline-nudge-generator...", ""),
                                   Line("log", "Font already exists:", "fonts/FiraSans-Regular.ttf")>>
                              \o done.reported
                /\ proc' = "done"
                /\ history' = Append(history, Ended("return"))
                /\ UNCHANGED pending
       ELSE /\ console' = console
                          \o <<Line("log", "Setting up baseline-nudge-generator...", ""),
                               Line("log", "Downloading Fira Sans font...", "")>>
            /\ proc' = "requesting"
            /\ pending' = {"open"}
            /\ UNCHANGED <<disk, history>>
    /\ UNCHANGED events
    /\ setupFrame

\* The thread pool opens the write stream's file
StreamOpens ==
    /\ "open" \in pending
    /\ disk' = writeFileSync(disk, FontDestination, OpenedFile)
    /\ pending' = pending \ {"open"}
    /\ UNCHANGED <<console, events, proc, history>>
    /\ setupFrame

\* The thread pool does the fs.unlink of a redirect
Unlinked ==
    /\ "unlink" \in pending
    /\ disk' = IF existsSync(disk, FontDestination) THEN unlink(disk, FontDestination) ELSE disk
    /\ pending' = pending \ {"unlink"}
    /\ UNCHANGED <<console, events, proc, history>>
    /\ setupFrame

\* A 301 or 302: the stream is closed, the file unlinked and downloadFont called
\* for the new URL
Redirected ==
    /\ proc = "requesting"
    /\ events.emitted < MaxRedirects
    /\ console' = Append(console, Line("log", "Following redirect to:", ""))
    /\ pending' = pending \cup {"unlink", "open"}
    /\ events' = [emitted |-> events.emitted + 1, handled |-> events.handled + 1]
    /\ UNCHANGED <<disk, proc, history>>
    /\ setupFrame

\* A 200: the response is piped to the open stream, the stream finishes,
\* downloadFont resolves and setup goes on to its end
Downloaded ==
    /\ proc = "requesting"
    /\ "open" \notin pending
    /\ \E done \in {writeConfig(finished(disk))} :
           /\ disk' = done.files
           /\ console' = console
                         \o <<Line("log", "Font downloaded:", "fonts/FiraSans-Regular.ttf")>>
                         \o done.reported
    /\ proc' = "done"
    /\ history' = Append(history, Ended("return"))
    /\ UNCHANGED <<events, pending>>
    /\ setupFrame

\* reject(...), caught by setup: console.error and process.exit(1), which ends
\* the process with what the thread pool has not done yet
failed(message) ==
    /\ proc = "requesting"
    /\ console' = Append(console, Line("error", "Setup failed:", message))
    /\ proc' = "failed"
    /\ pending' = {}
    /\ history' = Append(history, Ended("throw"))
    /\ UNCHANGED <<disk, events>>
    /\ setupFrame

\* A status other than 200, 301 and 302
Refused == failed("Failed to download font: 404")

\* The request's 'error'
RequestError == failed("getaddrinfo ENOTFOUND github.com")

SetupNext ==
    Setup \/ StreamOpens \/ Unlinked \/ Redirected \/ Downloaded \/ Refused \/ RequestError

SpecSetup == SetupInit /\ [][SetupNext]_vars
-----------------------------------------------------------------------------
(* Properties *)

\* The call has been made and has returned a value
NudgeReturned == nudgeRet # Null /\ nudgeRet.kind = "return"

\* C1: with loaded metrics and positive arguments, the value calculateNudgeRem
\* returns is never negative.
C1_ReturnedNudgeNonNegative ==
    NudgeReturned => FSign(nudgeRet.value) >= 0

\* C2: the snap step's value, ceil(offset / unit) * unit - offset, lies in
\* [0, baselineUnitRem).
C2_SnapWithinGridUnit ==
    NudgeReturned =>
        /\ FSign(nudgeRet.nudgeRem) >= 0
        /\ FLt(nudgeRet.nudgeRem, Lit(nudgeArgs.baselineUnitRem))

\* C3: the string extractRobustFontName returns has at least 2 characters, has a
\* letter and matches none of INVALID_NAME_PATTERNS, whatever the path and the
\* name tables.
C3_ResolvedNameIsValidated ==
    pc = "done" =>
        /\ Len(result.value.s) >= 2
        /\ \E i \in 1..Len(result.value.s) : result.value.s[i] \in Letters
        /\ \A k \in 1..Len(INVALID_NAME_PATTERNS) :
              ~test(INVALID_NAME_PATTERNS[k], result.value.s)

\* The source extractRobustFontName asked last
LastConsulted == consulted[Len(consulted)]

\* C4: extractRobustFontName never raises and returns a string; when it comes to
\* its last resort and the file name without extension is empty after separators
\* are turned into spaces, that string is "Unknown Font".
C4_ReturnsStringAndLiteralAtLastResort ==
    pc = "done" =>
        /\ result.kind = "return"
        /\ result.value.t = "string"
        /\ (LastConsulted = "fallback" /\ rawFilename(fontPath) = <<>>)
              => result.value.s = Chars("Unknown Font")

\* The last resort was reached with an empty file name and gave the literal
C4_Witness ==
    /\ pc = "done"
    /\ LastConsulted = "fallback"
    /\ rawFilename(fontPath) = <<>>
    /\ result = Return(JsString(Chars("Unknown Font")))

\* C4 as stated: "Unknown Font" whenever the file name without extension is empty
\* after separators are turned into spaces, whichever source gives the name.
C4_LiteralWheneverFilenameEmpty ==
    pc = "done" =>
        /\ result.kind = "return"
        /\ result.value.t = "string"
        /\ rawFilename(fontPath) = <<>> => result.value.s = Chars("Unknown Font")

\* The place of a source in the order of resolution
SourceRank(source) ==
    CASE source = "nameTable" -> 1
      [] source = "otFont" -> 2
      [] source = "path" -> 3
      [] source = "fallback" -> 4

\* What a source says when asked
Yield(source) ==
    CASE source = "nameTable" -> extractFontNameFromNameTable(nameTable)
      [] source = "otFont" -> extractFontNameFromOpenType(otFont)
      [] source = "path" -> extractFontNameFromPath(fontPath)
      [] source = "fallback" -> absoluteFallback(fontPath)

\* A step of the resolution: no step once a name is returned; a step asks at most
\* one source, one that comes after all those asked before; the name it gives is
\* returned at once, and without a name nothing is returned; the secondary table
\* is asked only when the primary one gives no name
FallthroughStep ==
    /\ pc # "done"
    /\ result = Null
    /\ \/ consulted' = consulted /\ result' = result /\ pc' # "done"
       \/ /\ Len(consulted') = Len(consulted) + 1
          /\ SubSeq(consulted', 1, Len(consulted)) = consulted
          /\ \A i \in 1..Len(consulted) :
                SourceRank(consulted[i]) < SourceRank(consulted'[Len(consulted')])
          /\ IF Truthy(Yield(consulted'[Len(consulted')]))
             THEN result' = Return(Yield(consulted'[Len(consulted')])) /\ pc' = "done"
             ELSE result' = result /\ pc' # "done"
    /\ (\E i \in 1..Len(consulted') : consulted'[i] = "otFont")
          => ~Truthy(nameTable) \/ ~Truthy(extractFontNameFromNameTable(nameTable))

\* C5: name resolution is a linear fallthrough over primary name table, secondary
\* name table, path and absolute fallback: the first source that yields a name
\* ends the resolution with that name, no source is asked after it or asked
\* twice, and the secondary table is asked only when the primary yields nothing.
C5_LinearFallthrough == [][FallthroughStep]_vars

\* The primary table was asked and gave nothing, the secondary table's name was
\* returned and no further source was asked
C5_Witness ==
    /\ pc = "done"
    /\ consulted = <<"nameTable", "otFont">>
    /\ result = Return(extractFontNameFromOpenType(otFont))

\* The order of name IDs the specification gives
SpecifiedNameIDs == <<16, 1, 4, 6>>

\* The value of the entry at place k of that order, platforms 3, 0, 1 within a name ID
specifiedValueAt(names, k) ==
    Get(findEntry(names, SpecifiedNameIDs[((k - 1) \div Len(platformIDs)) + 1],
                  platformIDs[((k - 1) % Len(platformIDs)) + 1]), "value")

\* The places of that order with a name
SpecifiedPlaces(names) ==
    {k \in 1..(Len(SpecifiedNameIDs) * Len(platformIDs)) : IsName(specifiedValueAt(names, k))}

\* C6: of the {nameID, platformID, value} records of a name table, the name
\* returned is the first by name ID 16, 1, 4, 6 and within a name ID by platform
\* 3, 0, 1.
C6_TypographicFamilyFirst ==
    (/\ fontName # Null
     /\ Get(Get(font, "name"), "names").t = "array"
     /\ SpecifiedPlaces(Get(Get(font, "name"), "names")) # {})
    => fontName = Return(JsString(trim(
           specifiedValueAt(Get(Get(font, "name"), "names"),
                          Min(SpecifiedPlaces(Get(Get(font, "name"), "names")))).s)))

\* A name ends with the suffix Regular or Normal
HasRegularSuffix(name) ==
    test(Regex("\\s(Regular|Normal)$", <<WsPlus, OneOf(<<"regular", "normal">>)>>, FALSE, TRUE),
         name)

\* A name has a weight/style keyword other than Regular and Normal
HasOtherKeyword(name) ==
    \E w \in WeightStyleWords \ {Chars("regular")} : \E i \in 1..Len(name) : WordAt(name, w, i)

\* C7: cleanupFontName removes a trailing Regular or Normal exactly when the
\* candidate has no other weight/style keyword.
C7_RegularSuffixRemovedIffNoOtherKeyword ==
    (cleaned # Null /\ HasRegularSuffix(Chars(candidate)))
    => (HasRegularSuffix(cleaned.s) <=> HasOtherKeyword(Chars(candidate)))

HasBoldItalic(name) == includes(name, Chars("Bold Italic"))

\* C8: for a candidate that contains "Bold Italic", what cleanupFontName returns,
\* and the name the path and name-table extraction return, contains it too.
C8_BoldItalicKept ==
    HasBoldItalic(Chars(candidate)) =>
        /\ cleaned # Null => HasBoldItalic(cleaned.s)
        /\ (pathName # Null /\ pathName.t = "string") => HasBoldItalic(pathName.s)
        /\ (tableName # Null /\ tableName.t = "string") => HasBoldItalic(tableName.s)

\* The operation called comes to a nudge calculation on a generator without metrics
NudgeWithoutMetrics ==
    \/ call = "calculateNudgeRem" /\ fontMetrics = Null
    \/ /\ call = "generateTokens"
       /\ ~(config.fontFiles # <<>> /\ fontMetricsMap # <<>>)
       /\ fontMetrics = Null /\ Len(config.elements) > 0
    \/ /\ call = "index.generateTokens"
       /\ (config.fontFile = "" \/ fontOnDisk = <<>>) /\ Len(config.elements) > 0
    \/ call = "generateNudges" /\ fontMetrics = Null /\ Len(config.elements) > 0
    \/ call = "generateScss" /\ fontMetrics = Null /\ Len(config.elements) > 0

\* An outcome is the error that the font metrics are not loaded
IsMetricsNotLoaded(o) ==
    /\ o.kind = "throw"
    /\ o.type = "Error"
    /\ Len(o.message) >= Len("Font metrics not loaded.")
    /\ SubSeq(o.message, 1, Len("Font metrics not loaded.")) = "Font metrics not loaded."

\* C9: an operation that comes to a nudge calculation without loaded metrics
\* fails with the metrics-not-loaded error, and with no other.
C9_MetricsNotLoadedError ==
    NudgeWithoutMetrics => IsMetricsNotLoaded(outcome)

\* The elements of the configuration whose family is no key of the metrics map
UnknownFamilyElements ==
    {k \in 1..Len(config.elements) :
        \A i \in 1..Len(fontMetricsMap[1].keys) :
            fontMetricsMap[1].keys[i] # familyOf(config.elements[k])}

\* C10: multi-font generateTokens with an element whose family is no key of the
\* metrics map fails with the error that names the family and lists the map's
\* families, and returns no tokens.
C10_UnknownFamilyFails ==
    (/\ call = "generateTokens"
     /\ config.fontFiles # <<>>
     /\ fontMetricsMap # <<>>
     /\ UnknownFamilyElements # {})
    => outcome = FamilyNotFound(familyOf(config.elements[Min(UnknownFamilyElements)]),
                                fontMetricsMap[1])

\* The multi-font generateTokens call has returned tokens
MultiFontTokens ==
    /\ call = "generateTokens"
    /\ config.fontFiles # <<>>
    /\ fontMetricsMap # <<>>
    /\ outcome.kind = "return"

\* The record the tokens hold for element k, the last of its name
TokenOf(k) == outcome.value.elements[cleanClassname(elementName(config.elements[k]))]

\* The elements whose record is in the tokens: those that no later element of
\* the same name replaces
LastOfName(k) ==
    \A j \in (k + 1)..Len(config.elements) :
        cleanClassname(elementName(config.elements[j]))
            # cleanClassname(elementName(config.elements[k]))

\* C11: the record multi-font generateTokens gives for an element holds the
\* element's own fontWeight, fontStyle, spaceAfter (times the baseline unit, in
\* rem) and family where the element gives them, and 400, "normal", 4 baseline
\* units and "sans" where it does not.
C11_OwnValueOrDefault ==
    MultiFontTokens =>
        \A k \in 1..Len(config.elements) : LastOfName(k) =>
            /\ TokenOf(k).fontWeight =
                  IF config.elements[k].fontWeight # 0 THEN config.elements[k].fontWeight ELSE 400
            /\ TokenOf(k).fontStyle =
                  IF config.elements[k].fontStyle # "" THEN config.elements[k].fontStyle
                  ELSE "normal"
            /\ TokenOf(k).fontFamily =
                  IF config.elements[k].fontFamily # "" THEN config.elements[k].fontFamily
                  ELSE "sans"
            /\ TokenOf(k).spaceAfter =
                  Rem(FMul(IF config.elements[k].spaceAfter # <<>>
                           THEN Lit(config.elements[k].spaceAfter[1]) ELSE FromInt(4),
                           Lit(config.baselineUnit)))

\* The calls of calculateNudgeRem a session has made
NudgeCalls == {i \in 1..Len(history) : history[i].name = "calculateNudgeRem"}

PageWritten == call = "generateHTML" /\ outcome.kind = "return"

\* The tokens the page was written for
PageTokens == generateTokens(fontMetrics, config, fontMetricsMap).value

\* C13: in the page generateHTML writes, each element's margin-bottom is its
\* spaceAfter in rem minus its nudgeTop in rem, and padding-top plus
\* margin-bottom is its spaceAfter in rem, the space after the element in
\* baseline units times the baseline unit.
C13_MarginBottomCompletesSpaceAfter ==
    PageWritten =>
        \A name \in DOMAIN outcome.value.rules :
            /\ outcome.value.rules[name].marginBottom.n =
                  FSub(PageTokens.elements[name].spaceAfter.n,
                       PageTokens.elements[name].nudgeTop.n)
            /\ FAdd(outcome.value.rules[name].paddingTop.n,
                    outcome.value.rules[name].marginBottom.n)
                  = PageTokens.elements[name].spaceAfter.n

\* validateConfig has returned its result
Validated == call = "validateConfig" /\ outcome.kind = "return"

\* The elements of the configuration validated
ValidatedElements == Get(config, "elements").vals

\* The result's errors hold the message
HasError(message) ==
    \E k \in 1..Len(outcome.value.errors) : outcome.value.errors[k] = message

\* The value is a number above 0 that is a multiple of 0.5, by its literal
IsPositiveHalfMultiple(v) ==
    /\ v.t = "number"
    /\ v.s[1] > 0
    /\ Len(v.s) = 2 => (2 * v.s[1]) % v.s[2] = 0

\* The result holds an error about the line height of element i
LineHeightRejected(i) ==
    \/ HasError(lineHeightError(i - 1))
    \/ HasError(Message(Indexed("elements", i - 1), ".lineHeight is required", <<>>))

C15_ZeroSpaceAfterIsHalfUnit ==
    /\ Validated =>
           \A i \in 1..Len(ValidatedElements) :
               Get(ValidatedElements[i], "spaceAfter") = JsNumber(0)
                   => ~HasError(spaceAfterError(i - 1))
    /\ MultiFontTokens =>
           \A k \in 1..Len(config.elements) :
               (/\ LastOfName(k)
                /\ config.elements[k].spaceAfter # <<>>
                /\ FIsZero(Lit(config.elements[k].spaceAfter[1])))
                   => TokenOf(k).spaceAfter = Rem(FMul(Num(1, 2), Lit(config.baselineUnit)))

\* The name the path gives by the rule: the file name's, else the parent directory's
PathNameByRule ==
    IF isValidFontName(cleanupFontName(nameFromFilename(fontPath)))
    THEN JsString(cleanupFontName(nameFromFilename(fontPath)))
    ELSE IF isValidFontName(cleanupFontName(nameFromParentDir(fontPath)))
    THEN JsString(cleanupFontName(nameFromParentDir(fontPath)))
    ELSE JsNull

\* C16: the name taken from the path is the cleaned file name without extension,
\* leading number and "webfont", separators as spaces, when that is valid, and
\* else the parent directory's name treated alike when that is valid; without
\* name tables fonts/2-MyFont-webfont.ttf resolves to "MyFont".
C16_PathDerivedName ==
    pc = "done" =>
        /\ LastConsulted = "path" =>
              /\ result = Return(PathNameByRule)
              /\ isValidFontName(result.value.s)
        /\ LastConsulted = "fallback" => PathNameByRule = JsNull
        /\ (/\ fontPath = Chars("fonts/2-MyFont-webfont.ttf")
            /\ ~Truthy(nameTable) /\ ~Truthy(otFont))
              => result = Return(JsString(Chars("MyFont")))

\* fonts/2-MyFont-webfont.ttf came without name tables and resolved to "MyFont"
\* by its path
C16_Witness ==
    /\ pc = "done"
    /\ fontPath = Chars("fonts/2-MyFont-webfont.ttf")
    /\ nameTable = JsNull /\ otFont = JsNull
    /\ consulted = <<"path">>
    /\ result = Return(JsString(Chars("MyFont")))

\* A name came from the parent directory, the file name's being invalid
C16_ParentDirWitness ==
    /\ pc = "done"
    /\ LastConsulted = "path"
    /\ ~isValidFontName(cleanupFontName(nameFromFilename(fontPath)))
    /\ result = Return(JsString(cleanupFontName(nameFromParentDir(fontPath))))

\* /for\s+use\s+only/i, the fifth of INVALID_NAME_PATTERNS
ForUseOnly == INVALID_NAME_PATTERNS[5]

\* C17: for fonts/licensed-for-use-only-v2.ttf with a name table whose only
\* entry is the full name "For Use Only v2", the table's entry is rejected and
\* the name returned is the path's cleaned name: it is not the table's string and
\* matches no rejected pattern such as "for use only".
C17_LicensedPathName ==
    (/\ pc = "done"
     /\ fontPath = Chars("fonts/licensed-for-use-only-v2.ttf")
     /\ nameTable = JsObject(<<"fullName">>, <<Localized("en", "For Use Only v2")>>)
     /\ ~Truthy(otFont))
        => /\ consulted[1] = "nameTable" /\ Len(consulted) > 1
           /\ result.kind = "return"
           /\ result.value.s # Chars("For Use Only v2")
           /\ result.value = extractFontNameFromPath(fontPath)
           /\ ~test(ForUseOnly, result.value.s)
           /\ isValidFontName(result.value.s)

\* Neither the name table nor opentype.js gives the font a name
Nameless == ~Truthy(openTypeName(nameTableName(Get(font, "name")), otFont))

\* The description text of the font's WOFF metadata
MetaCandidate ==
    IF Get(font, "meta").t = "string" THEN metaDescription(Get(font, "meta").s) ELSE Undefined

\* The vendor ID of the font's OS/2 table
VendorCandidate == Get(Get(font, "os2"), "achVendID")

\* A candidate that is a string and is valid once cleaned
ValidOnceCleaned(v) == v.t = "string" /\ isValidFontName(cleanupFontName(v.s))

\* C18: when the name tables give no name, the name is the metadata description
\* text, else the OS/2 vendor ID, each cleaned and taken only if valid, and the
\* name made from the path only when both fail.
C18_MetadataThenVendorValidated ==
    (fontName # Null /\ Nameless) =>
        IF ValidOnceCleaned(MetaCandidate)
        THEN fontName = Return(JsString(cleanupFontName(MetaCandidate.s)))
        ELSE IF ValidOnceCleaned(VendorCandidate)
        THEN fontName = Return(JsString(cleanupFontName(VendorCandidate.s)))
        ELSE fontName = extractFontName(Font(Undefined, Undefined, Undefined), fontPath, JsNull)

\* The order of the name properties the specification gives
SpecifiedProperties == <<"preferredFamily", "fontFamily", "fullName", "postScriptName">>

\* The value of a language-keyed record: its English one when present, else the
\* first there is
LanguageValue(record) ==
    IF Get(record, "en") # Undefined THEN Get(record, "en")
    ELSE IF record.t = "object" /\ Len(record.vals) > 0 THEN record.vals[1]
    ELSE record

\* The places of that order whose value is a string that is valid once cleaned
AcceptedPlaces(table) ==
    {k \in 1..Len(SpecifiedProperties) :
        ValidOnceCleaned(LanguageValue(Get(table, SpecifiedProperties[k])))}

\* C19: the name a name table gives is the cleaned value of the first of
\* preferredFamily, fontFamily, fullName, postScriptName whose value, the English
\* one when present and else the first language's, is valid once cleaned; a
\* table with preferredFamily {en: "Inter"} resolves to "Inter" for
\* fonts/Inter-Regular.woff2.
C19_NameTablePropertyOrder ==
    /\ (Len(consulted) >= 1 /\ consulted[1] = "nameTable" /\ nameTable.t = "object") =>
           IF AcceptedPlaces(nameTable) # {}
           THEN /\ consulted = <<"nameTable">>
                /\ result = Return(JsString(cleanupFontName(LanguageValue(
                       Get(nameTable, SpecifiedProperties[Min(AcceptedPlaces(nameTable))])).s)))
           ELSE pc = "done" => Len(consulted) > 1
    /\ (/\ pc = "done"
        /\ fontPath = Chars("fonts/Inter-Regular.woff2")
        /\ nameTable = JsObject(<<"preferredFamily">>, <<Localized("en", "Inter")>>))
           => result = Return(JsString(Chars("Inter")))

\* The table with preferredFamily {en: "Inter"} gave "Inter" for
\* fonts/Inter-Regular.woff2
C19_Witness ==
    /\ pc = "done"
    /\ fontPath = Chars("fonts/Inter-Regular.woff2")
    /\ nameTable = JsObject(<<"preferredFamily">>, <<Localized("en", "Inter")>>)
    /\ consulted = <<"nameTable">>
    /\ result = Return(JsString(Chars("Inter")))

\* A record in two languages gave its English value, not its first
C19_EnglishWitness ==
    /\ pc = "done"
    /\ Len(Get(nameTable, "preferredFamily").vals) = 2
    /\ result = Return(JsString(Chars("Inter Display")))

\* (1/16) / fontSizeRem * max(0, fontSizeRem - 1)
DriftCompensation ==
    FMul(FDiv(Num(1, 16), Lit(nudgeArgs.fontSizeRem)),
         FMax(FromInt(0), FSub(Lit(nudgeArgs.fontSizeRem), FromInt(1))))

\* C20: calculateNudgeRem subtracts (1/16) / fontSizeRem * max(0, fontSizeRem - 1)
\* from the snapped nudge only when that is above 0; a snapped nudge of 0 is
\* returned as 0, and for a fontSizeRem of at most 1 the value returned is the
\* snapped nudge rounded to 5 decimals.
C20_CompensationOnlyAbovePositiveSnap ==
    NudgeReturned =>
        /\ FSign(nudgeRet.nudgeRem) = 1 =>
              nudgeRet.value = roundTo5(wrapNegative(FSub(nudgeRet.nudgeRem, DriftCompensation),
                                                     Lit(nudgeArgs.baselineUnitRem)))
        /\ FSign(nudgeRet.nudgeRem) = 0 => FIsZero(nudgeRet.value)
        /\ ~FGt(Lit(nudgeArgs.fontSizeRem), FromInt(1)) =>
              nudgeRet.value = roundTo5(nudgeRet.nudgeRem)

\* The baseline offset of the simplified calculation: leading / 2 + ascender,
\* the leading being the line height less ascender and descender, and the
\* descender the absolute value of the descent at the font size
SimplifiedOffsetRem ==
    Let([ascender \in {ascenderRem(fontMetrics, Lit(nudgeArgs.fontSizeRem))} |->
    Let([descender \in {FDiv(FMul(FAbs(FromInt(fontMetrics.descent)),
                                  Lit(nudgeArgs.fontSizeRem)),
                             FromInt(fontMetrics.unitsPerEm))} |->
        FAdd(FDiv(FSub(FMul(Lit(nudgeArgs.lineHeightRem), Lit(nudgeArgs.baselineUnitRem)),
                       FAdd(ascender, descender)),
                  FromInt(2)),
             ascender)])])

\* The metrics with the descent's sign turned
DescentSignTurned == [fontMetrics EXCEPT !.descent = 0 - fontMetrics.descent]

\* C21: for metrics with lineGap 0, calculateNudgeRem's baseline offset is that
\* of the simplified calculation, leading / 2 + ascender, and so is the value
\* returned, for every font size, line height and baseline unit; and metrics
\* that differ only in the sign of descent give the same nudge.
C21_ZeroLineGapIsSimplified ==
    NudgeReturned =>
        /\ fontMetrics.lineGap = 0 =>
              /\ nudgeRet.baselineOffsetRem = SimplifiedOffsetRem
              /\ nudgeRet.value =
                     roundTo5(compensatedNudgeRem(
                         snapNudgeRem(SimplifiedOffsetRem, Lit(nudgeArgs.baselineUnitRem)),
                         Lit(nudgeArgs.fontSizeRem), Lit(nudgeArgs.baselineUnitRem)))
        /\ calculateNudgeRem(DescentSignTurned, Lit(nudgeArgs.fontSizeRem),
                             Lit(nudgeArgs.lineHeightRem),
                             Lit(nudgeArgs.baselineUnitRem)) = nudgeRet

\* A nudge other than 0 was returned for metrics with no line gap and a
\* negative descent
C21_Witness ==
    /\ NudgeReturned
    /\ fontMetrics.lineGap = 0
    /\ fontMetrics.descent < 0
    /\ FSign(nudgeRet.value) = 1

\* The regenerations made so far: the generateFile calls after the first
Regenerations == IF history = <<>> THEN 0 ELSE Len(history) - 1

\* A step that makes a regeneration which throws
RegenerationThrows ==
    /\ Len(history) >= 1
    /\ Len(history') = Len(history) + 1
    /\ history'[Len(history')].kind = "throw"

\* C22: in watch mode, after the first generation, every change event of the
\* configuration file has one regeneration attempt made for it; a regeneration
\* that throws is caught and reported on the console, the watcher stays
\* registered, and every later change event still has its regeneration.
C22_WatchRegeneratesOnEveryChange ==
    /\ [](proc = "watching" => Regenerations = events.handled)
    /\ [][watcher = "ready" => watcher' = "ready"]_vars
    /\ [][RegenerationThrows =>
            /\ Len(console') = Len(console) + 1
            /\ console'[Len(console')].level = "error"
            /\ watcher' = "ready"]_vars
    /\ \A n \in 1..MaxEvents : (events.emitted >= n) ~> (Regenerations >= n)

\* A regeneration threw and was reported, and the regeneration for a later
\* change event was made and succeeded
C22_Witness ==
    /\ watcher = "ready"
    /\ Len(history) = 3
    /\ history[2].kind = "throw"
    /\ history[3].kind = "return"
    /\ Len(console) = 1
    /\ events.handled = 2


-----------------------------------------------------------------------------
(* generateFiles: what it raises at each step and what it writes *)

\* A step of generateFiles
GenerateFilesRuns == Len(history') = Len(history) + 1 /\ call' = "generateFiles"

\* The configuration file is there and holds JSON
HoldsJson(files) == existsSync(files, InputPath) /\ files[InputPath].kind = "json"

\* The configuration itself fails validation, whatever font files there are:
\* the errors validateConfig finds when every font file is at its place
ContentFailsValidation(files) ==
    \/ ~HoldsJson(files)
    \/ validateConfig(JSONparse(files[InputPath].holds),
                      fontPathsOf(files[InputPath].holds)).kind = "throw"
    \/ ~validateConfig(JSONparse(files[InputPath].holds),
                       fontPathsOf(files[InputPath].holds)).value.isValid

\* The font files of the configuration, in the order generateFiles loads them
FontFilesNamed(files) ==
    IF files[InputPath].holds.fontFiles # <<>>
    THEN [k \in 1..Len(files[InputPath].holds.fontFiles[1]) |->
             files[InputPath].holds.fontFiles[1][k].path]
    ELSE <<files[InputPath].holds.fontFile>>

\* The k-th font file is found by no name findFontFile tries
CannotBeFound(files, k) ==
    findFontFile(files, dirname(InputPath), Chars(FontFilesNamed(files)[k])) = <<>>

\* The k-th font file is found and its metrics cannot be read
CannotBeRead(files, k) ==
    /\ ~CannotBeFound(files, k)
    /\ loadFont(files, dirname(InputPath), FontFilesNamed(files)[k]) = FailedToRead

\* The first font file that cannot be loaded, 0 when all can
FirstNotLoaded(files) ==
    Let([failing \in {{k \in 1..Len(FontFilesNamed(files)) :
                          CannotBeFound(files, k) \/ CannotBeRead(files, k)}} |->
        IF failing = {} THEN 0 ELSE Min(failing)])

\* C23: generateFiles writes nothing unless every earlier step succeeded. A
\* configuration that fails validation raises ConfigurationError; with a
\* configuration that is in order, a font file that cannot be found raises
\* FontFileError and one whose metrics cannot be read raises FontMetricsError;
\* whenever generateFiles throws, the disk is as it was.
C23_NoOutputUnlessEveryStepSucceeded ==
    [][GenerateFilesRuns =>
          /\ outcome'.kind = "throw" => disk' = disk
          /\ ContentFailsValidation(disk) =>
                 outcome'.kind = "throw" /\ outcome'.type = "ConfigurationError"
          /\ (~ContentFailsValidation(disk) /\ FirstNotLoaded(disk) # 0) =>
                 /\ outcome'.kind = "throw"
                 /\ outcome'.type = IF CannotBeFound(disk, FirstNotLoaded(disk))
                                    THEN "FontFileError" ELSE "FontMetricsError"]_vars

\* generateFiles has just run on the disk as it is: the configuration file and
\* the font files are the ones it read
JustRan == call = "generateFiles" /\ proc \in {"returned", "thrown"}

\* The configuration file holds a multi-font configuration that validateConfig
\* reports as valid
ValidMultiFont(files) ==
    /\ HoldsJson(files)
    /\ files[InputPath].holds.fontFiles # <<>>
    /\ validateConfigFile(files, InputPath).isValid

\* C24: a multi-font configuration that validateConfig reports as valid, all of
\* whose font files load, is turned into tokens: generateFiles does not end in
\* an unknown-font-family error, also when the elements omit fontFamily and no
\* family is named "sans".
C24_ValidMultiFontYieldsTokens ==
    (JustRan /\ ValidMultiFont(disk) /\ FirstNotLoaded(disk) = 0) =>
        /\ outcome.kind = "return"
        /\ DOMAIN outcome.value.tokens.elements # {}

\* The call made, on metrics with the line gap g in place of the font's
WithLineGap(g) ==
    calculateNudgeRem([fontMetrics EXCEPT !.lineGap = g], Lit(nudgeArgs.fontSizeRem),
                      Lit(nudgeArgs.lineHeightRem), Lit(nudgeArgs.baselineUnitRem))

\* C25: the value calculateNudgeRem returns does not depend on the metrics'
\* lineGap: with the ascent, descent, unitsPerEm, font size, line height and
\* baseline unit of the call, every lineGap >= 0 gives the nudge returned.
C25_NudgeIndependentOfLineGap ==
    NudgeReturned =>
        \A i \in 1..NumLineGaps : WithLineGap(LineGapList[i]).value = nudgeRet.value

C27_OneTokenPerElement ==
    (call = "generateTokens" /\ outcome.kind = "return") =>
        Cardinality(DOMAIN outcome.value.elements) = Len(config.elements)

\* The elements of the configuration that an identifier or a classname names
NamedElements ==
    {k \in 1..Len(config.elements) :
        config.elements[k].identifier # "" \/ config.elements[k].classname # ""}

\* C30: the nudges generateNudges returns, and the nudge map of generateScss
\* built from them, hold an entry under the cleaned name of every element,
\* whether an identifier or a classname names it: elements named by identifier
\* alone are not collapsed into one shared key.
C30_NudgesKeyedByElementName ==
    (call \in {"generateNudges", "generateScss"} /\ outcome.kind = "return") =>
        \A k \in NamedElements :
            cleanClassname(elementName(config.elements[k])) \in DOMAIN outcome.value.nudges

\* C28: cleanupFontName is idempotent: applied to its own output it returns
\* that output unchanged.
C28_CleanupIdempotent ==
    cleaned # Null => cleanupFontName(cleaned.s) = cleaned.s

-----------------------------------------------------------------------------
(* setup *)

\* A step in which the download fails
DownloadFails == proc = "requesting" /\ proc' = "failed"

\* C29: when the font download of setup fails, by a status other than 200 or by
\* a network error, no file is left at the font's destination, so that the next
\* run of setup attempts the download again and does not report the font as
\* already there; and setup overwrites neither a font file nor a configuration
\* file it finds.
C29_FailedDownloadLeavesNoFile ==
    /\ [][DownloadFails => ~existsSync(disk', FontDestination)]_vars
    /\ [][(proc = "failed" /\ proc' # "failed") => proc' = "requesting"]_vars
    /\ [][existsSync(disk, ConfigDestination) =>
              /\ existsSync(disk', ConfigDestination)
              /\ disk'[ConfigDestination] = disk[ConfigDestination]]_vars
    /\ [][(proc # "requesting" /\ pending = {} /\ existsSync(disk, FontDestination)) =>
              /\ existsSync(disk', FontDestination)
              /\ disk'[FontDestination] = disk[FontDestination]]_vars

====
